---- MODULE Spec2Model ----
(***************************************************************************)
(* A model of the NoteFlow v2 job pipeline: the processor registry and its *)
(* dependency order, the router, the executor with its execution context,  *)
(* and the pipeline orchestrator with its per-job driver tasks.            *)
(*                                                                         *)
(* Three specifications share the module:                                  *)
(*   Spec        the orchestrator: jobs, driver tasks, commands, the poll  *)
(*               loop, the job store and the active-job set;               *)
(*   SpecStep    one step execution inside an ExecutionContext, over a     *)
(*               small file system;                                        *)
(*   SpecRouter  the router and registry as functions of bounded inputs.   *)
(***************************************************************************)
EXTENDS Integers, Sequences, FiniteSets, TLC

None == "none"

(***************************************************************************)
(* Bounds of the model.                                                    *)
(***************************************************************************)
MaxTasks == 2
MaxResults == 3
MaxArtifacts == 1
MaxOps == 3
MaxHistory == 2

(***************************************************************************)
(* Sequence helpers.                                                       *)
(***************************************************************************)
InSeq(x, s) == \E i \in 1..Len(s) : s[i] = x

Range(s) == {s[i] : i \in 1..Len(s)}

RECURSIVE Reverse(_)
Reverse(s) == IF s = <<>> THEN <<>> ELSE Append(Reverse(Tail(s)), Head(s))

RECURSIVE Count(_, _)
Count(x, s) ==
    IF s = <<>> THEN 0
    ELSE (IF Head(s) = x THEN 1 ELSE 0) + Count(x, Tail(s))

RECURSIVE Copies(_, _)
Copies(x, n) == IF n = 0 THEN <<>> ELSE <<x>> \o Copies(x, n - 1)

(***************************************************************************)
(* core/models/step.py: StepResult.                                        *)
(***************************************************************************)
StepResult(id, job_id, step_name) ==
    [id |-> id, job_id |-> job_id, step_name |-> step_name,
     status |-> "pending", artifacts |-> <<>>, user_input |-> None,
     error_message |-> None, revert_error |-> None, skip_reason |-> None]

step_start(r) == [r EXCEPT !.status = "running"]

step_complete(r) == [r EXCEPT !.status = "completed"]

step_fail(r, error) == [r EXCEPT !.status = "failed", !.error_message = error]

step_await_input(r) == [r EXCEPT !.status = "awaiting_input"]

\* skip: the reason goes to output_data["skip_reason"] when there is one.
step_skip(r, reason) ==
    [r EXCEPT !.status = "skipped",
              !.skip_reason = IF reason \notin {None, ""} THEN reason ELSE @]

provide_input(r, user_input) ==
    [r EXCEPT !.user_input = user_input, !.status = "running"]

step_mark_reverted(r) == [r EXCEPT !.status = "reverted"]

artifact_can_revert(a) ==
    a.status = "created" /\ a.reversibility # "irreversible"

\* A check of the status alone.
step_completed(r) == r.status = "completed"

step_can_revert(r) ==
    /\ r.status = "completed"
    /\ \A i \in 1..Len(r.artifacts) : artifact_can_revert(r.artifacts[i])

(***************************************************************************)
(* core/models/job.py: Job.  completed_at is None or "set"; started_at is  *)
(* None or the time it was set at, the times being "1", "2", ...           *)
(***************************************************************************)
Job(id) ==
    [id |-> id, status |-> "pending", current_step |-> None, history |-> <<>>,
     started_at |-> None, completed_at |-> None, error_message |-> None,
     data_user_input |-> None, source_path |-> None]

start_processing(job, step_name, now) ==
    [job EXCEPT !.status = "processing", !.current_step = step_name,
                !.started_at = IF @ = None THEN now ELSE @]

\* A job that notes the step it waits on but keeps its status.
await_input_keeps_status(job, step_name) == [job EXCEPT !.current_step = step_name]

await_input(job, step_name) ==
    [job EXCEPT !.status = "awaiting_input", !.current_step = step_name]

complete(job) ==
    [job EXCEPT !.status = "completed", !.current_step = None,
                !.completed_at = "set"]

fail(job, error) ==
    [job EXCEPT !.status = "failed", !.error_message = error,
                !.completed_at = "set"]

\* A cancel that leaves the job as it is.
cancel_ignored(job) == job

cancel(job) == [job EXCEPT !.status = "cancelled", !.completed_at = "set"]

start_revert(job) == [job EXCEPT !.status = "reverting"]

complete_revert(job, to_step) ==
    [job EXCEPT !.status = IF to_step = None THEN "reverted" ELSE "pending",
                !.current_step = to_step]

\* A history that takes a new result at its front.
add_step_result_in_front(job, result) ==
    [job EXCEPT !.history = <<result>> \o @]

add_step_result(job, result) ==
    [job EXCEPT !.history = Append(@, result)]

\* Index of the most recent history entry for step_name, 0 when there is none.
step_result_index(job, step_name) ==
    LET idx == {i \in 1..Len(job.history) : job.history[i].step_name = step_name}
    IN IF idx = {} THEN 0 ELSE CHOOSE i \in idx : \A k \in idx : k <= i

get_completed_steps(job) ==
    SelectSeq([i \in 1..Len(job.history) |->
                  IF job.history[i].status = "completed"
                  THEN job.history[i].step_name ELSE None],
              LAMBDA n : n # None)

has_completed_step(job, step_name) == InSeq(step_name, get_completed_steps(job))

(***************************************************************************)
(* core/plugins/registry.py: ProcessorRegistry.  A registry is a record    *)
(*   names           the registered names, in registration order;          *)
(*   requires        name -> the processor's requires list;                *)
(*   requires_input  name -> "never" | "always" | "conditional".           *)
(***************************************************************************)
registered(reg, name) == InSeq(name, reg.names)

get_dependencies(reg, name) ==
    IF registered(reg, name) THEN reg.requires[name] ELSE <<>>

\* A dependency graph in which no processor waits for another.
in_degree_zero(reg, processors, p) == 0

\* in_degree[p] as built by the first loop of get_execution_order: one for
\* each dep of p that is in processors, each time p comes up in processors.
in_degree_of(reg, processors, p) ==
    LET deps == get_dependencies(reg, p)
    IN Count(p, processors)
          * Cardinality({i \in 1..Len(deps) : InSeq(deps[i], processors)})

\* graph[dep]: the dependents of dep, appended in the order of the loop.
RECURSIVE graph_of(_, _, _)
graph_of(reg, processors, dep) ==
    IF processors = <<>> THEN <<>>
    ELSE Copies(Head(processors), Count(dep, get_dependencies(reg, Head(processors))))
         \o graph_of(reg, Tail(processors), dep)

\* The inner for loop of Kahn's algorithm over graph[node].
RECURSIVE relax(_, _, _)
relax(dependents, in_degree, queue) ==
    IF dependents = <<>> THEN [in_degree |-> in_degree, queue |-> queue]
    ELSE LET d == Head(dependents)
             deg == [in_degree EXCEPT ![d] = @ - 1]
         IN relax(Tail(dependents), deg,
                  IF deg[d] = 0 THEN Append(queue, d) ELSE queue)

RECURSIVE kahn(_, _, _, _, _)
kahn(reg, processors, queue, in_degree, result) ==
    IF queue = <<>> THEN result
    ELSE LET node == Head(queue)
             graph_node == graph_of(reg, processors, node)
             r == relax(graph_node, in_degree, Tail(queue))
         IN kahn(reg, processors, r.queue, r.in_degree, Append(result, node))

\* An ordering that returns what Kahn's algorithm placed, without comparing
\* its length with that of processors.
get_execution_order_unchecked(reg, processors) ==
    LET in_degree == [p \in Range(processors) |-> in_degree_of(reg, processors, p)]
        queue == SelectSeq(processors, LAMBDA p : in_degree[p] = 0)
    IN [ok |-> TRUE, order |-> kahn(reg, processors, queue, in_degree, <<>>),
        remaining |-> <<>>]

\* get_execution_order: [ok |-> TRUE, order |-> ...] or, for the ValueError,
\* [ok |-> FALSE, remaining |-> ...].
get_execution_order(reg, processors) ==
    LET in_degree == [p \in Range(processors) |-> in_degree_of(reg, processors, p)]
        queue == SelectSeq(processors, LAMBDA p : in_degree[p] = 0)
        result == kahn(reg, processors, queue, in_degree, <<>>)
    IN IF Len(result) # Len(processors)
       THEN [ok |-> FALSE, order |-> <<>>,
             remaining |-> SelectSeq(processors, LAMBDA p : ~InSeq(p, result))]
       ELSE [ok |-> TRUE, order |-> result, remaining |-> <<>>]

(***************************************************************************)
(* core/engine/router.py: Router.  should_process is the processors'       *)
(* answer for the job: name -> "true" | "false" | "raise".                 *)
(***************************************************************************)
\* A loop over the registry that ends at the first should_process that raises.
applicable_until_raise(reg, should_process) ==
    LET raising == {i \in 1..Len(reg.names) : should_process[reg.names[i]] = "raise"}
        stop == IF raising = {} THEN Len(reg.names) + 1
                ELSE CHOOSE i \in raising : \A k \in raising : i <= k
    IN SelectSeq(SubSeq(reg.names, 1, stop - 1), LAMBDA n : should_process[n] = "true")

get_applicable_processors(reg, should_process) ==
    SelectSeq(reg.names, LAMBDA n : should_process[n] = "true")

\* A router that does not look at the requires of a step.
deps_ignored(reg, completed_steps, step_name) == TRUE

deps_satisfied(reg, completed_steps, step_name) ==
    \A i \in 1..Len(reg.requires[step_name]) :
        reg.requires[step_name][i] \in completed_steps

\* A router that does not look at what the job has completed: the first
\* applicable step in execution order.
get_first_step(reg, should_process, job) ==
    LET eo == get_execution_order(reg, get_applicable_processors(reg, should_process))
    IN IF eo.order = <<>> THEN None ELSE eo.order[1]

get_next_step(reg, should_process, job) ==
    LET completed_steps == Range(get_completed_steps(job))
        applicable == get_applicable_processors(reg, should_process)
        eo == get_execution_order(reg, applicable)
        ok == {i \in 1..Len(eo.order) :
                  /\ eo.order[i] \notin completed_steps
                  /\ registered(reg, eo.order[i])
                  /\ deps_satisfied(reg, completed_steps, eo.order[i])}
    IN IF applicable = <<>> THEN None
       ELSE IF ~eo.ok THEN None
       ELSE IF ok = {} THEN None
       ELSE eo.order[CHOOSE i \in ok : \A k \in ok : i <= k]

can_run_step(reg, job, step_name) ==
    /\ registered(reg, step_name)
    /\ ~has_completed_step(job, step_name)
    /\ \A i \in 1..Len(reg.requires[step_name]) :
           InSeq(reg.requires[step_name][i], get_completed_steps(job))

\* The reason can_run_step gives with its answer, "" when the step can run.
can_run_step_reason(reg, job, step_name) ==
    IF ~registered(reg, step_name) THEN "not found"
    ELSE IF has_completed_step(job, step_name) THEN "already completed"
    ELSE IF \E i \in 1..Len(reg.requires[step_name]) :
               ~InSeq(reg.requires[step_name][i], get_completed_steps(job))
    THEN "missing dependencies"
    ELSE ""

(***************************************************************************)
(* The pipeline's configuration in Spec: two jobs, created in this order   *)
(* with equal priority, and a registry of an automatic processor A and a   *)
(* human-in-the-loop processor H that requires A.                          *)
(***************************************************************************)
max_concurrent_jobs == 1

Jobs == <<"j1", "j2">>

JobIds == Range(Jobs)

Tasks == 1..MaxTasks

Processors == <<"A", "H">>

PipelineRegistry ==
    [names |-> Processors,
     requires |-> [n \in Range(Processors) |-> IF n = "H" THEN <<"A">> ELSE <<>>],
     requires_input |->
        [n \in Range(Processors) |-> IF n = "H" THEN "always" ELSE "never"]]

PipelineShould == [n \in Range(Processors) |-> "true"]

\* What a call of processor.process can do: return a StepResult with one of
\* these statuses, or raise.
ProcessOutcomes == {"completed", "failed", "awaiting_input", "raise"}

(***************************************************************************)
(* State.                                                                  *)
(***************************************************************************)
VARIABLES
    db,             \* JobStore: the persisted rows, job id -> Job
    artifact_store, \* ArtifactStore: the persisted artifacts
    active_jobs,    \* Pipeline._active_jobs
    tasks,          \* the driver tasks and commands in flight, by slot
    next_id,        \* the next fresh StepResult id
    worker,         \* the background worker's position and its listed rows,
                    \* and the pipeline's _running flag
    rt_reg,         \* the registry of the pipeline and of its router
    rt_should,      \* each processor's should_process answer
    rt_job,         \* SpecRouter: the job being routed
    rt_next,        \* SpecRouter: what get_next_step returned, "unset" before
    eo_processors,  \* SpecOrder: the list given to get_execution_order
    eo_result,      \* SpecOrder: what get_execution_order gave
    watcher,        \* SpecWatch: the FileWatcher and its debounce loop
    files,          \* SpecStep: the file system, path -> content or Absent
    ctx,            \* SpecStep: the ExecutionContext of the step
    step            \* SpecStep: the step execution of _do_execute

pvars == <<db, artifact_store, active_jobs, tasks, next_id, worker>>

rvars == <<rt_reg, rt_should, rt_job, rt_next, eo_processors, eo_result, watcher>>

svars == <<files, ctx, step>>

vars == <<pvars, rvars, svars>>

(***************************************************************************)
(* core/storage: JobStore and ArtifactStore.                               *)
(***************************************************************************)
\* JobStore.save: insert or update the row of job.id.
job_store_save(job) == (job.id :> job) @@ db

\* JobStore.list_pending: the pending rows by (priority DESC, created_at ASC),
\* cut to limit.
list_pending(limit) ==
    LET rows == SelectSeq(Jobs, LAMBDA j : j \in DOMAIN db /\ db[j].status = "pending")
    IN [i \in 1..(IF Len(rows) < limit THEN Len(rows) ELSE limit) |-> db[rows[i]]]

\* ArtifactStore.save of each artifact of a sequence (upsert by id).
artifact_store_save(store, artifacts) ==
    {a \in store : \A i \in 1..Len(artifacts) : artifacts[i].id # a.id}
        \cup Range(artifacts)

(***************************************************************************)
(* core/engine/context.py: ExecutionContext over a flat file system.       *)
(* An artifact is a record of the tracked operation: its id (the place in  *)
(* the pending list), artifact_type, target, before_state, after_state,    *)
(* status and reversibility.                                               *)
(***************************************************************************)
Absent == "absent"

Paths == {"p", "q"}

Contents == {"c1", "c2"}

\* Frontmatter dicts are sets of <<key, value>> entries.  A note is a file
\* text with its parse: the dict of its leading --- block and the body after
\* it.  dumped tells the texts that _build_frontmatter writes (nothing for an
\* empty dict, else the block as yaml.dump lays it out, keys sorted, plain
\* scalars) from the texts a person wrote: an empty block, a quoted scalar.
Title == <<"title", "x">>

Done == <<"status", "done">>

Updates == {{Done}}

NoteTable ==
    {[text |-> "c1", frontmatter |-> {}, body |-> "c1", dumped |-> TRUE],
     [text |-> "c2", frontmatter |-> {}, body |-> "c2", dumped |-> TRUE],
     [text |-> "---\n---\nc1", frontmatter |-> {}, body |-> "c1", dumped |-> FALSE],
     [text |-> "---\ntitle: \"x\"\n---\nc1", frontmatter |-> {Title}, body |-> "c1",
      dumped |-> FALSE],
     [text |-> "---\ntitle: x\n---\nc1", frontmatter |-> {Title}, body |-> "c1",
      dumped |-> TRUE],
     [text |-> "---\ntitle: x\n---\nc2", frontmatter |-> {Title}, body |-> "c2",
      dumped |-> TRUE],
     [text |-> "---\nstatus: done\n---\nc1", frontmatter |-> {Done}, body |-> "c1",
      dumped |-> TRUE],
     [text |-> "---\nstatus: done\n---\nc2", frontmatter |-> {Done}, body |-> "c2",
      dumped |-> TRUE],
     [text |-> "---\nstatus: done\ntitle: x\n---\nc1", frontmatter |-> {Done, Title},
      body |-> "c1", dumped |-> TRUE],
     [text |-> "---\nstatus: done\ntitle: x\n---\nc2", frontmatter |-> {Done, Title},
      body |-> "c2", dumped |-> TRUE]}

\* The notes found on disk before a step: written by a person, or by an
\* earlier update_frontmatter.
Notes == {"---\n---\nc1", "---\ntitle: \"x\"\n---\nc1", "---\ntitle: x\n---\nc1"}

\* ExecutionContext._parse_frontmatter: the dict and the body of a text.
parse_frontmatter(content) ==
    LET note == CHOOSE n \in NoteTable : n.text = content
    IN [frontmatter |-> note.frontmatter, body |-> note.body]

\* ExecutionContext._build_frontmatter(frontmatter) + body.
build_frontmatter(frontmatter, body) ==
    (CHOOSE n \in NoteTable :
         n.dumped /\ n.frontmatter = frontmatter /\ n.body = body).text

\* {**before, **updates}.
merge(before, updates) ==
    {e \in before : \A u \in updates : u[1] # e[1]} \cup updates

\* json.dumps and json.loads of a frontmatter dict.
JsonTable ==
    {[dict |-> {}, text |-> "{}"],
     [dict |-> {Title}, text |-> "{\"title\": \"x\"}"],
     [dict |-> {Done}, text |-> "{\"status\": \"done\"}"],
     [dict |-> {Done, Title}, text |-> "{\"title\": \"x\", \"status\": \"done\"}"]}

json_dumps(dict) == (CHOOSE e \in JsonTable : e.dict = dict).text

json_loads(text) == (CHOOSE e \in JsonTable : e.text = text).dict

\* A fresh context: no pending artifact, not committed.
ExecutionContext == [pending |-> <<>>, committed |-> FALSE]

Artifact(id, artifact_type, target, before_state, after_state) ==
    [id |-> id, job_id |-> "j", step_name |-> "s", artifact_type |-> artifact_type,
     target |-> target, before_state |-> before_state, after_state |-> after_state,
     status |-> "created", reversibility |-> "fully_reversible"]

\* Artifact.mark_irreversible.
mark_irreversible(a) ==
    [a EXCEPT !.status = "irreversible", !.reversibility = "irreversible"]

\* A rollback that goes through the pending artifacts first recorded first.
recording_order(pending) == pending

\* ExecutionContext._revert_artifact: the file system after reverting a.
revert_artifact(fs, a) ==
    CASE a.artifact_type = "file_create" ->
            IF fs[a.target] # Absent THEN [fs EXCEPT ![a.target] = Absent] ELSE fs
      [] a.artifact_type \in {"file_modify", "file_delete"} ->
            IF a.before_state # None THEN [fs EXCEPT ![a.target] = a.before_state]
            ELSE fs
      [] a.artifact_type = "file_move" ->
            IF fs[a.after_state] # Absent
            THEN [fs EXCEPT ![a.before_state] = fs[a.after_state],
                            ![a.after_state] = Absent]
            ELSE fs
      [] a.artifact_type = "frontmatter_update" ->
            IF a.before_state \notin {None, ""} /\ fs[a.target] # Absent
            THEN [fs EXCEPT ![a.target] =
                     build_frontmatter(json_loads(a.before_state),
                                       parse_frontmatter(fs[a.target]).body)]
            ELSE fs
      [] OTHER -> fs

RECURSIVE revert_each(_, _)
revert_each(fs, artifacts) ==
    IF artifacts = <<>> THEN fs
    ELSE revert_each(revert_artifact(fs, Head(artifacts)), Tail(artifacts))

\* os.rename(dest, source) of _revert_artifact onto an existing file: it
\* replaces the file where rename does so (POSIX) and raises FileExistsError
\* where it does not (Windows).
rename_raises(fs, a, replaces) ==
    /\ ~replaces
    /\ a.artifact_type = "file_move"
    /\ fs[a.after_state] # Absent
    /\ fs[a.before_state] # Absent

\* The loop of revert_step over the artifacts, in the order given: an
\* artifact whose reversal raises is left as it is and the error is kept.
RECURSIVE revert_loop(_, _, _, _)
revert_loop(fs, artifacts, replaces, error) ==
    IF artifacts = <<>> THEN [files |-> fs, revert_error |-> error]
    ELSE IF rename_raises(fs, Head(artifacts), replaces)
    THEN revert_loop(fs, Tail(artifacts), replaces, "error")
    ELSE revert_loop(revert_artifact(fs, Head(artifacts)), Tail(artifacts),
                     replaces, error)

\* The order in which rollback reverts the pending artifacts: last first.
rollback_order(pending) == Reverse(pending)

\* ExecutionContext.rollback: nothing once committed; else revert the pending
\* artifacts, last first, and clear the list.  Gives the context, the file
\* system and the artifacts reverted, in the order of reverting.
rollback(c, fs) ==
    IF c.committed THEN [ctx |-> c, files |-> fs, reverted |-> <<>>]
    ELSE [ctx |-> [c EXCEPT !.pending = <<>>],
          files |-> revert_each(fs, rollback_order(c.pending)),
          reverted |-> rollback_order(c.pending)]

\* ExecutionContext.commit: save the pending artifacts, once.
commit(c, store) ==
    IF c.committed THEN [ctx |-> c, store |-> store]
    ELSE [ctx |-> [c EXCEPT !.committed = TRUE],
          store |-> artifact_store_save(store, c.pending)]

(***************************************************************************)
(* Driver tasks and commands.  A slot of tasks holds one call in flight:   *)
(*   kind     "poll" (spawned by the worker), "process" (process_job),     *)
(*            "resume" (resume_job), "revert" (revert_job) or "cancel"     *)
(*            (cancel_job);                                                *)
(*   job      the call's own Job object, loaded from the job store;        *)
(*   pc       where the call is suspended;                                 *)
(*   result   the StepResult execute_step is working on;                   *)
(*   last     the status of the StepResult the driver loop got back,       *)
(*            "null" for the null of execute_next_step;                    *)
(*   emitted  the events this call has emitted;                            *)
(*   resumed  resume_job: the status resume_step returned;                 *)
(*   todo, target   revert_job: the steps still to revert, and to_step.    *)
(***************************************************************************)
IdleTask ==
    [kind |-> None, jid |-> None, pc |-> "idle", job |-> None, result |-> None,
     last |-> None, resumed |-> None, emitted |-> {},
     todo |-> <<>>, target |-> None]

\* A call that has returned: its locals are gone, its slot is spent.
Finished == [IdleTask EXCEPT !.pc = "done"]

FreeSlots == {t \in Tasks : tasks[t].pc = "idle"}

FreeSlot == CHOOSE t \in FreeSlots : \A u \in FreeSlots : t <= u

NewTask(kind, job) ==
    [IdleTask EXCEPT !.kind = kind, !.jid = job.id, !.job = job]

\* The artifacts a step execution records through its context: k file
\* artifacts with fresh ids.
new_artifacts(result, k) ==
    LET base == Cardinality({a \in artifact_store : a.id[1] = result.id})
    IN [i \in 1..k |->
           [id |-> <<result.id, base + i>>, job_id |-> result.job_id,
            step_name |-> result.step_name, status |-> "created",
            reversibility |-> "fully_reversible"]]

\* JobExecutor._do_execute on the task's job and result.  idx is the place of
\* result in job.history when it is already there (resume_step), else 0.
\* Gives the job as saved, the result, the artifacts saved to the store and
\* the events of the executor's callbacks.
do_execute(job, result, idx, outcome, k) ==
    LET res == IF outcome = "raise" THEN step_fail(result, "error")
               ELSE [result EXCEPT
                        !.status = outcome,
                        !.error_message = IF outcome = "failed" THEN "error" ELSE None,
                        !.artifacts = new_artifacts(result, k)]
        j1 == IF outcome = "raise" THEN fail(job, "error")
              ELSE IF outcome = "awaiting_input" THEN await_input(job, result.step_name)
              ELSE job
        j2 == IF idx = 0 THEN j1 ELSE [j1 EXCEPT !.history[idx] = res]
    IN [job |-> add_step_result(j2, res), result |-> res,
        saved |-> IF outcome = "raise" THEN <<>> ELSE res.artifacts,
        events |-> IF outcome = "awaiting_input"
                   THEN {"step_awaiting_input", "step_completed"}
                   ELSE {"step_completed"}]

\* The step executions a run may start: MaxResults for a pipeline of two
\* processors, and two more for each further processor.
ResultLimit == MaxResults + 2 * (Len(rt_reg.names) - 2)

\* The while condition and the breaks of Pipeline._process_job_async.
loop_continues(task) ==
    /\ task.job.status \in {"pending", "processing"}
    /\ task.last \notin {"null", "awaiting_input", "failed"}

(***************************************************************************)
(* Pipeline.create_job.                                                    *)
(***************************************************************************)
CreateJob(j) ==
    /\ j \notin DOMAIN db
    /\ \A i \in 1..Len(Jobs) : Jobs[i] = j => \A k \in 1..(i - 1) : Jobs[k] \in DOMAIN db
    /\ db' = job_store_save(Job(j))
    /\ UNCHANGED <<artifact_store, active_jobs, tasks, next_id, worker, rvars, svars>>

(***************************************************************************)
(* Pipeline._create_job_from_file_event for a path that has no job yet:    *)
(* create_job, then, when the watch names an initial processor, set it as  *)
(* the job's current_step and save again.                                  *)
(***************************************************************************)
CreateJobFromFileEvent(j, initial_processor) ==
    /\ j \notin DOMAIN db
    /\ \A i \in 1..Len(Jobs) : Jobs[i] = j => \A k \in 1..(i - 1) : Jobs[k] \in DOMAIN db
    /\ db' = job_store_save(IF initial_processor = None THEN Job(j)
                            ELSE [Job(j) EXCEPT !.current_step = initial_processor])
    /\ UNCHANGED <<artifact_store, active_jobs, tasks, next_id, worker, rvars, svars>>

(***************************************************************************)
(* Pipeline.process_job: load the job, then drive it.                      *)
(***************************************************************************)
ProcessJob(j) ==
    /\ FreeSlots # {}
    /\ j \in DOMAIN db
    /\ tasks' = [tasks EXCEPT ![FreeSlot] = [NewTask("process", db[j]) EXCEPT !.pc = "start"]]
    /\ UNCHANGED <<db, artifact_store, active_jobs, next_id, worker, rvars, svars>>

(***************************************************************************)
(* Pipeline._worker_loop / _process_pending_jobs: a poll lists the pending *)
(* rows, then spawns one driver task per row not in the active set.  The   *)
(* tasks a poll spawned run their first slice before the next poll: the    *)
(* worker sleeps one second in between.                                    *)
(***************************************************************************)
WorkerList ==
    /\ worker.pc = "sleep"
    /\ worker.running
    /\ \A t \in Tasks : ~(tasks[t].kind = "poll" /\ tasks[t].pc = "start")
    /\ Cardinality(active_jobs) < max_concurrent_jobs
    /\ LET pending == list_pending(max_concurrent_jobs - Cardinality(active_jobs))
       IN /\ pending # <<>>
          /\ worker' = [worker EXCEPT !.pc = "listed", !.pending = pending]
    /\ UNCHANGED <<db, artifact_store, active_jobs, tasks, next_id, rvars, svars>>

\* A poll that spawns a driver for every row it listed.
every_listed(pending, active) == pending

\* The rows of a poll whose id is not in the active set.
not_active(pending, active) ==
    SelectSeq(pending, LAMBDA job : job.id \notin active)

WorkerSpawn ==
    /\ worker.pc = "listed"
    /\ LET spawn == not_active(worker.pending, active_jobs)
           slot(i) == CHOOSE t \in FreeSlots :
                         Cardinality({u \in FreeSlots : u < t}) = i - 1
       IN /\ Cardinality(FreeSlots) >= Len(spawn)
          /\ tasks' = [t \in Tasks |->
                IF \E i \in 1..Len(spawn) : slot(i) = t
                THEN LET i == CHOOSE i \in 1..Len(spawn) : slot(i) = t
                     IN [NewTask("poll", spawn[i]) EXCEPT !.pc = "start"]
                ELSE tasks[t]]
    /\ worker' = [worker EXCEPT !.pc = "sleep", !.pending = <<>>]
    /\ UNCHANGED <<db, artifact_store, active_jobs, next_id, rvars, svars>>

(***************************************************************************)
(* Pipeline._process_job_async, cut at its suspension points.              *)
(***************************************************************************)
\* Enter: add the job id to the active set, emit job_started.
DriverStart(t) ==
    /\ tasks[t].pc = "start"
    /\ active_jobs' = active_jobs \cup {tasks[t].jid}
    /\ tasks' = [tasks EXCEPT ![t].pc = "loop",
                              ![t].emitted = @ \cup {"job_started"}]
    /\ UNCHANGED <<db, artifact_store, next_id, worker, rvars, svars>>

\* One turn of the loop up to the first save: execute_next_step asks the
\* router; with no step it completes the job; else execute_step creates the
\* StepResult, marks the job processing and saves it.
DriverNextStep(t) ==
    LET task == tasks[t]
        step_name == get_next_step(rt_reg, rt_should, task.job)
        utcnow == ToString(next_id)
    IN /\ task.pc = "loop"
       /\ loop_continues(task)
       /\ IF step_name = None
          THEN /\ db' = job_store_save(complete(task.job))
               /\ tasks' = [tasks EXCEPT ![t].job = complete(task.job),
                                         ![t].last = "null",
                                         ![t].pc = "exit"]
               /\ UNCHANGED next_id
          ELSE /\ next_id <= ResultLimit
               /\ can_run_step(rt_reg, task.job, step_name)
               /\ db' = job_store_save(start_processing(task.job, step_name, utcnow))
               /\ tasks' = [tasks EXCEPT
                     ![t].job = start_processing(task.job, step_name, utcnow),
                     ![t].result = step_start(StepResult(next_id, task.jid, step_name)),
                     ![t].pc = "execute"]
               /\ next_id' = next_id + 1
       /\ UNCHANGED <<artifact_store, active_jobs, worker, rvars, svars>>

\* execute_step, the step needs input: record the pause, save, emit
\* step_awaiting_input, return.
DriverAwaitInput(t) ==
    LET task == tasks[t]
        step_name == task.result.step_name
        result == step_await_input(task.result)
        job == add_step_result(await_input(task.job, step_name), result)
    IN /\ task.pc = "execute"
       /\ rt_reg.requires_input[step_name] = "always"
       /\ db' = job_store_save(job)
       /\ tasks' = [tasks EXCEPT ![t].job = job, ![t].result = result,
                                 ![t].last = result.status,
                                 ![t].emitted = @ \cup {"step_awaiting_input"},
                                 ![t].pc = "loop"]
       /\ UNCHANGED <<artifact_store, active_jobs, next_id, worker, rvars, svars>>

\* execute_step, the step runs: _do_execute calls process, commits or rolls
\* back, appends the result, saves the job and emits step_completed.
DriverExecute(t, outcome, k) ==
    LET task == tasks[t]
        done == do_execute(task.job, task.result, 0, outcome, k)
    IN /\ task.pc = "execute"
       /\ rt_reg.requires_input[task.result.step_name] = "never"
       /\ artifact_store' = artifact_store_save(artifact_store, done.saved)
       /\ db' = job_store_save(done.job)
       /\ tasks' = [tasks EXCEPT ![t].job = done.job, ![t].result = done.result,
                                 ![t].last = done.result.status,
                                 ![t].emitted = @ \cup done.events,
                                 ![t].pc = "loop"]
       /\ UNCHANGED <<active_jobs, next_id, worker, rvars, svars>>

\* Leave the loop and emit the terminal event the job's status calls for.
DriverEmit(t) ==
    LET task == tasks[t]
    IN /\ \/ task.pc = "exit"
          \/ task.pc = "loop" /\ ~loop_continues(task)
       /\ tasks' = [tasks EXCEPT
             ![t].emitted = @ \cup (IF task.job.status = "completed" THEN {"job_completed"}
                                    ELSE IF task.job.status = "failed" THEN {"job_failed"}
                                    ELSE {}),
             ![t].pc = "finally"]
       /\ UNCHANGED <<db, artifact_store, active_jobs, next_id, worker, rvars, svars>>

\* finally: discard the id from the active set; the call returns.
DriverExit(t) ==
    /\ tasks[t].pc = "finally"
    /\ active_jobs' = active_jobs \ {tasks[t].jid}
    /\ tasks' = [tasks EXCEPT ![t] = Finished]
    /\ UNCHANGED <<db, artifact_store, next_id, worker, rvars, svars>>

(***************************************************************************)
(* Pipeline.resume_job: load the job, resume_step, then drive the job.     *)
(***************************************************************************)
\* The checks of resume_job and resume_step; a call that fails one raises to
\* its caller and changes nothing.  valid is the processor's answer to validate_input.
resume_checks(job, valid) ==
    /\ job.status = "awaiting_input"
    /\ job.current_step # None
    /\ registered(rt_reg, job.current_step)
    /\ step_result_index(job, job.current_step) # 0
    /\ job.history[step_result_index(job, job.current_step)].status = "awaiting_input"
    /\ valid

\* A resume_step that records the input before it validates it.
resume_step_input_first(reg, job, step_name, user_input, valid) ==
    LET idx == step_result_index(job, step_name)
        recorded == [job EXCEPT !.history[idx] = provide_input(@, user_input),
                                !.data_user_input = user_input]
    IN IF ~registered(reg, step_name)
       THEN [raised |-> "not found", job |-> job]
       ELSE IF idx = 0 \/ job.history[idx].status # "awaiting_input"
       THEN [raised |-> "not awaiting input", job |-> job]
       ELSE IF ~valid
       THEN [raised |-> "invalid input", job |-> recorded]
       ELSE [raised |-> None, job |-> recorded]

\* JobExecutor.resume_step up to its call of _do_execute: the error it raises,
\* None when it raises none, and the job as the call leaves it.
resume_step(reg, job, step_name, user_input, valid) ==
    LET idx == step_result_index(job, step_name)
    IN IF ~registered(reg, step_name)
       THEN [raised |-> "not found", job |-> job]
       ELSE IF idx = 0 \/ job.history[idx].status # "awaiting_input"
       THEN [raised |-> "not awaiting input", job |-> job]
       ELSE IF ~valid
       THEN [raised |-> "invalid input", job |-> job]
       ELSE [raised |-> None,
             job |-> [job EXCEPT !.history[idx] = provide_input(@, user_input),
                                 !.data_user_input = user_input]]

ResumeJob(j, valid) ==
    /\ j \in DOMAIN db
    /\ resume_checks(db[j], valid)
    /\ FreeSlots # {}
    /\ tasks' = [tasks EXCEPT ![FreeSlot] = [NewTask("resume", db[j]) EXCEPT !.pc = "resume"]]
    /\ UNCHANGED <<db, artifact_store, active_jobs, next_id, worker, rvars, svars>>

\* resume_step past its checks: provide_input, set_data and _do_execute on the
\* StepResult found in history.
ResumeStep(t, outcome, k) ==
    LET task == tasks[t]
        job == task.job
        idx == step_result_index(job, job.current_step)
        resumed == resume_step(rt_reg, job, job.current_step, "input", TRUE).job
        result == resumed.history[idx]
        done == do_execute(resumed, result, idx, outcome, k)
    IN /\ task.pc = "resume"
       /\ artifact_store' = artifact_store_save(artifact_store, done.saved)
       /\ db' = job_store_save(done.job)
       /\ tasks' = [tasks EXCEPT ![t].job = done.job, ![t].result = done.result,
                                 ![t].resumed = done.result.status,
                                 ![t].emitted = @ \cup done.events,
                                 ![t].pc = "start"]
       /\ UNCHANGED <<active_jobs, next_id, worker, rvars, svars>>

(***************************************************************************)
(* Pipeline.cancel_job: load the job, then mark it cancelled and save it,  *)
(* whatever its status.                                                    *)
(***************************************************************************)
CancelJob(j) ==
    /\ j \in DOMAIN db
    /\ FreeSlots # {}
    /\ tasks' = [tasks EXCEPT ![FreeSlot] = [NewTask("cancel", db[j]) EXCEPT !.pc = "cancel"]]
    /\ UNCHANGED <<db, artifact_store, active_jobs, next_id, worker, rvars, svars>>

CancelSave(t) ==
    /\ tasks[t].pc = "cancel"
    /\ db' = job_store_save(cancel(tasks[t].job))
    /\ tasks' = [tasks EXCEPT ![t] = Finished]
    /\ UNCHANGED <<artifact_store, active_jobs, next_id, worker, rvars, svars>>

(***************************************************************************)
(* Pipeline.revert_job: JobExecutor.revert_to_step (to_step given) or      *)
(* revert_all (to_step None), cut at the saves.                            *)
(***************************************************************************)
\* revert_to_step: the target is a step of the history; else it returns and
\* changes nothing.
target_found(job, target_step) ==
    \E i \in 1..Len(job.history) : job.history[i].step_name = target_step

RevertJob(j, to_step) ==
    /\ j \in DOMAIN db
    /\ to_step = None \/ target_found(db[j], to_step)
    /\ FreeSlots # {}
    /\ tasks' = [tasks EXCEPT ![FreeSlot] =
          [NewTask("revert", db[j]) EXCEPT !.pc = "revert", !.target = to_step]]
    /\ UNCHANGED <<db, artifact_store, active_jobs, next_id, worker, rvars, svars>>

\* The names of the revertable entries from the target on, the target's own
\* entry included.
steps_from_target(job, target_step) ==
    LET at == {i \in 1..Len(job.history) : job.history[i].step_name = target_step}
        first == CHOOSE i \in at : \A k \in at : i <= k
    IN SelectSeq([i \in 1..Len(job.history) |->
                    IF i >= first /\ step_can_revert(job.history[i])
                    THEN job.history[i].step_name ELSE None],
                 LAMBDA n : n # None)

\* revert_to_step: the names of the revertable entries after the target.
steps_to_revert(job, target_step) ==
    LET at == {i \in 1..Len(job.history) : job.history[i].step_name = target_step}
        first == CHOOSE i \in at : \A k \in at : i <= k
        after == SelectSeq([i \in 1..Len(job.history) |->
                              IF i > first /\ step_can_revert(job.history[i])
                              THEN job.history[i].step_name ELSE None],
                           LAMBDA n : n # None)
    IN after

\* revert_all: the names of the revertable entries, last first.
reversible_steps(job) ==
    SelectSeq([i \in 1..Len(job.history) |->
                  LET r == job.history[Len(job.history) + 1 - i]
                  IN IF step_can_revert(r) THEN r.step_name ELSE None],
              LAMBDA n : n # None)

RevertBegin(t) ==
    LET task == tasks[t]
        todo == IF task.target = None THEN reversible_steps(task.job)
                ELSE Reverse(steps_to_revert(task.job, task.target))
    IN /\ task.pc = "revert"
       /\ db' = job_store_save(start_revert(task.job))
       /\ tasks' = [tasks EXCEPT ![t].job = start_revert(task.job),
                                 ![t].todo = todo,
                                 ![t].pc = "reverting"]
       /\ UNCHANGED <<artifact_store, active_jobs, next_id, worker, rvars, svars>>

\* ArtifactStore.mark_reverted of the artifacts with these ids.
mark_reverted(store, ids) ==
    {IF a.id \in ids THEN [a EXCEPT !.status = "reverted"] ELSE a : a \in store}

\* JobExecutor.revert_step on the head of todo.  raising: the artifacts whose
\* reversal raises; custom_raises: processor.revert raises.
RevertStep(t, raising, custom_raises) ==
    LET task == tasks[t]
        job == task.job
        step_name == Head(task.todo)
        idx == step_result_index(job, step_name)
        ok == /\ registered(rt_reg, step_name)
              /\ idx # 0
              /\ step_can_revert(job.history[idx])
        result == job.history[idx]
        failed == {i \in 1..Len(result.artifacts) :
                      artifact_can_revert(result.artifacts[i]) /\ i \in raising}
        marked == {result.artifacts[i].id : i \in
                      {k \in 1..Len(result.artifacts) :
                          artifact_can_revert(result.artifacts[k]) /\ k \notin raising}}
        reverted == step_mark_reverted(
                        [result EXCEPT !.revert_error =
                            IF failed # {} \/ custom_raises THEN "error" ELSE @])
        saved == [job EXCEPT !.history[idx] = reverted]
        broken == fail(job, "revert failed")
    IN /\ task.pc = "reverting"
       /\ task.todo # <<>>
       /\ IF ok
          THEN /\ artifact_store' = mark_reverted(artifact_store, marked)
               /\ db' = job_store_save(saved)
               /\ tasks' = [tasks EXCEPT ![t].job = saved, ![t].todo = Tail(@)]
          ELSE IF task.target # None
          THEN /\ db' = job_store_save(broken)
               /\ tasks' = [tasks EXCEPT ![t] = Finished]
               /\ UNCHANGED artifact_store
          ELSE /\ tasks' = [tasks EXCEPT ![t].todo = Tail(@)]
               /\ UNCHANGED <<db, artifact_store>>
       /\ UNCHANGED <<active_jobs, next_id, worker, rvars, svars>>

\* The end of revert_to_step (the job goes back to pending) and of revert_all;
\* a delete_job that called revert_all goes on to delete the rows.
RevertFinish(t) ==
    LET task == tasks[t]
        job == IF task.target = None THEN complete_revert(task.job, None)
               ELSE [complete_revert(task.job, task.target) EXCEPT
                        !.status = "pending", !.current_step = None]
    IN /\ task.pc = "reverting"
       /\ task.todo = <<>>
       /\ db' = job_store_save(job)
       /\ tasks' = [tasks EXCEPT ![t] =
             IF task.kind = "delete" THEN [task EXCEPT !.job = job, !.pc = "delete"]
             ELSE Finished]
       /\ UNCHANGED <<artifact_store, active_jobs, next_id, worker, rvars, svars>>

(***************************************************************************)
(* Spec: the orchestrator.                                                 *)
(***************************************************************************)
\* get_execution_order not called yet.
NotCalled == [called |-> FALSE, ok |-> FALSE, order |-> <<>>, remaining |-> <<>>]

OrderIdle ==
    /\ eo_processors = <<>>
    /\ eo_result = NotCalled

RouterIdle ==
    /\ rt_reg = PipelineRegistry
    /\ rt_should = PipelineShould
    /\ rt_job = None
    /\ rt_next = "unset"
    /\ OrderIdle

\* A FileWatcher that was not started.
NotWatching == [pc |-> "stopped"]

PipelineInit ==
    /\ watcher = NotWatching
    /\ db = [j \in {} |-> Job(j)]
    /\ artifact_store = {}
    /\ active_jobs = {}
    /\ tasks = [t \in Tasks |-> IdleTask]
    /\ next_id = 1
    /\ worker = [pc |-> "sleep", pending |-> <<>>, running |-> TRUE]

StepIdle ==
    /\ files = [p \in Paths |-> Absent]
    /\ ctx = ExecutionContext
    /\ step = [pc |-> "idle"]

Init == PipelineInit /\ RouterIdle /\ StepIdle

Next ==
    \/ \E j \in JobIds : CreateJob(j)
    \/ \E j \in JobIds, initial_processor \in Range(Processors) \cup {None} :
          CreateJobFromFileEvent(j, initial_processor)
    \/ \E j \in JobIds : ProcessJob(j)
    \/ \E j \in JobIds, valid \in BOOLEAN : ResumeJob(j, valid)
    \/ \E j \in JobIds, to_step \in Range(Processors) \cup {None} : RevertJob(j, to_step)
    \/ \E j \in JobIds : CancelJob(j)
    \/ \E t \in Tasks : CancelSave(t)
    \/ WorkerList
    \/ WorkerSpawn
    \/ \E t \in Tasks : DriverStart(t)
    \/ \E t \in Tasks : DriverNextStep(t)
    \/ \E t \in Tasks : DriverAwaitInput(t)
    \/ \E t \in Tasks, outcome \in ProcessOutcomes, k \in 0..MaxArtifacts :
          DriverExecute(t, outcome, k)
    \/ \E t \in Tasks : DriverEmit(t)
    \/ \E t \in Tasks : DriverExit(t)
    \/ \E t \in Tasks, outcome \in ProcessOutcomes, k \in 0..MaxArtifacts :
          ResumeStep(t, outcome, k)
    \/ \E t \in Tasks : RevertBegin(t)
    \/ \E t \in Tasks, raising \in SUBSET (1..MaxArtifacts), custom_raises \in BOOLEAN :
          RevertStep(t, raising, custom_raises)
    \/ \E t \in Tasks : RevertFinish(t)

Spec == Init /\ [][Next]_vars

(***************************************************************************)
(* Properties of the orchestrator (Spec).                                  *)
(***************************************************************************)
\* The calls in flight: the slots whose call has started and not returned.
Live == {t \in Tasks : tasks[t].pc \notin {"idle", "done"}}

\* The driver calls inside a step execution: between the save that marks the
\* job processing and the save of the step's result.
Executing == {t \in Tasks : tasks[t].pc = "execute"}

\* C1: at every moment the number of job ids in the active-job set is at
\* most max_concurrent_jobs, whatever the interleaving of polls, process_job
\* and resume_job calls.
C1_ActiveWithinLimit == Cardinality(active_jobs) <= max_concurrent_jobs

\* C2: for any single job, no two driver tasks are inside a step execution
\* of that job at the same time.
C2_StepsSerialPerJob ==
    \A t \in Executing, u \in Executing : tasks[t].jid = tasks[u].jid => t = u

\* C5: whenever a driver's step came back with a failed StepResult (appended
\* to history), the job is failed with an error message and the driver has
\* emitted job_failed by the time it leaves.
C5_FailedStepFailsJob ==
    \A t \in Tasks :
        (tasks[t].pc = "finally" /\ tasks[t].last = "failed") =>
            /\ tasks[t].job.history[Len(tasks[t].job.history)].status = "failed"
            /\ tasks[t].job.status = "failed"
            /\ tasks[t].job.error_message # None
            /\ "job_failed" \in tasks[t].emitted

\* C6: when resume_job was called on a job awaiting input at H with valid
\* input and H's process completed, the input is recorded on H's StepResult
\* and, every step of the pipeline being completed by then, the job is
\* completed when the call ends.
C6_ResumeCompletesJob ==
    \A t \in Tasks :
        (/\ tasks[t].kind = "resume"
         /\ tasks[t].pc = "finally"
         /\ tasks[t].resumed = "completed"
         /\ \A i \in 1..Len(Processors) : has_completed_step(tasks[t].job, Processors[i])) =>
            /\ tasks[t].result.user_input # None
            /\ tasks[t].job.status = "completed"
            /\ db[tasks[t].jid].status = "completed"

\* C7: a step whose requires_input is "always" is not processed: execute_step
\* appends its StepResult with status awaiting_input, sets the job to
\* awaiting_input with current_step that step, saves it, emits
\* step_awaiting_input, and the driver's loop does not continue.
C7_Pause(t) ==
    (/\ tasks[t].pc = "execute"
     /\ PipelineRegistry.requires_input[tasks[t].result.step_name] = "always"
     /\ tasks'[t].pc # "execute") =>
        LET job == tasks'[t].job
            result == tasks'[t].result
        IN /\ artifact_store' = artifact_store
           /\ result.artifacts = <<>>
           /\ result.status = "awaiting_input"
           /\ job.history = Append(tasks[t].job.history, result)
           /\ job.status = "awaiting_input"
           /\ job.current_step = tasks[t].result.step_name
           /\ db'[job.id] = job
           /\ "step_awaiting_input" \in tasks'[t].emitted
           /\ ~loop_continues(tasks'[t])

C7_InputStepPauses == [][\A t \in Tasks : C7_Pause(t)]_vars

C7_Witness ==
    \E t \in Tasks :
        /\ tasks[t].pc = "loop"
        /\ tasks[t].last = "awaiting_input"
        /\ tasks[t].result.step_name = "H"
        /\ db[tasks[t].jid].status = "awaiting_input"
        /\ db[tasks[t].jid].current_step = "H"

\* C8 as stated: in every call's Job object the history never gets shorter,
\* and an entry already present changes in nothing but its status.
C8_Kept(t, fields) ==
    (t \in Live /\ tasks'[t].pc \notin {"idle", "done"}) =>
        LET old == tasks[t].job.history
            new == tasks'[t].job.history
        IN /\ Len(new) >= Len(old)
           /\ \A i \in 1..Len(old) :
                 \A f \in DOMAIN old[i] \ fields : new[i][f] = old[i][f]

C8_OnlyStatusChanges == [][\A t \in Tasks : C8_Kept(t, {"status"})]_vars

\* C8 amended: in every call's Job object the history never gets shorter and
\* its entries keep their position and identity (id, job, step name); the
\* in-place changes are an entry's status and what resume and revert record
\* on it: user_input, artifacts, error_message and revert_error.
C8_HistoryPrefixStable ==
    [][\A t \in Tasks : C8_Kept(t, {"status", "user_input", "artifacts",
                                    "error_message", "revert_error"})]_vars

C8_Witness ==
    \E t \in Tasks :
        /\ tasks[t].kind = "resume"
        /\ tasks[t].pc = "start"
        /\ Len(tasks[t].job.history) >= 2
        /\ tasks[t].job.history[2].user_input # None
        /\ tasks[t].job.history[2].status = "completed"

\* The edges of the job status state machine.
StatusEdges ==
    {<<"pending", "processing">>, <<"processing", "completed">>,
     <<"processing", "awaiting_input">>, <<"awaiting_input", "processing">>,
     <<"processing", "failed">>, <<"pending", "cancelled">>,
     <<"reverting", "reverted">>, <<"reverting", "pending">>}

\* C14: every change of a job's persisted status follows an edge of the state
\* machine, or is a revert command marking the job reverting.
C14_StatusFollowsEdges ==
    [][\A j \in DOMAIN db :
          db'[j].status # db[j].status =>
              \/ <<db[j].status, db'[j].status>> \in StatusEdges
              \/ /\ db'[j].status = "reverting"
                 /\ \E t \in Tasks : tasks[t].kind = "revert" /\ tasks[t].pc = "revert"]_vars

\* C15: in every state of every job, current_step is non-null if and only
\* if the job's status is processing or awaiting_input.
C15_CurrentStepIffRunning ==
    \A j \in DOMAIN db :
        db[j].current_step # None <=> db[j].status \in {"processing", "awaiting_input"}

\* C16: a job whose status is completed, failed, cancelled or reverted has
\* completed_at set.
C16_TerminalHasCompletedAt ==
    \A j \in DOMAIN db :
        db[j].status \in {"completed", "failed", "cancelled", "reverted"} =>
            db[j].completed_at # None

\* C17: once the persisted started_at of a job is set, no later transition
\* changes it.
C17_StartedAtSetOnce ==
    [][\A j \in DOMAIN db :
          db[j].started_at # None => db'[j].started_at = db[j].started_at]_vars

\* Where each call in flight stands.
TaskPcs == [t \in Tasks |-> tasks[t].pc]

\* C27: cancel_job leaves the job's row cancelled and changes no other call
\* in flight; a step that is executing while the row is cancelled still
\* ends with its StepResult, no longer running, in the row's history.
C27_CancelLeavesStepRunning ==
    [][\A t \in Tasks :
          /\ (tasks[t].pc = "cancel" /\ tasks'[t].pc = "done") =>
                /\ db'[tasks[t].jid].status = "cancelled"
                /\ \A u \in Tasks \ {t} : tasks'[u] = tasks[u]
          /\ (/\ tasks[t].pc = "execute"
              /\ db[tasks[t].jid].status = "cancelled"
              /\ tasks'[t].pc # "execute") =>
                \E i \in 1..Len(db'[tasks[t].jid].history) :
                    /\ db'[tasks[t].jid].history[i].id = tasks[t].result.id
                    /\ db'[tasks[t].jid].history[i].status # "running"]_<<db, TaskPcs>>

\* The job was cancelled while a driver was executing one of its steps.
C27_Witness ==
    \E t \in Tasks :
        /\ tasks[t].pc = "execute"
        /\ tasks[t].kind \in {"poll", "process"}
        /\ db[tasks[t].jid].status = "cancelled"

(***************************************************************************)
(* SpecStep: one step execution, JobExecutor._do_execute, with the calls   *)
(* the processor makes on its context while process runs.  step holds      *)
(*   pc        "process" while process runs, "returned" after _do_execute; *)
(*   status    the StepResult's status;                                    *)
(*   artifacts the StepResult's artifacts;                                 *)
(*   job_status  the job's status;                                         *)
(*   auto_revert_on_error  the processor's flag;                           *)
(*   raised    process raised;                                             *)
(*   before    the file system when the step began;                        *)
(*   recorded  the pending artifacts when process ended;                   *)
(*   committed_by_process  the context was committed when process ended;   *)
(*   reverted  the artifacts rollback reverted, in the order of reverting; *)
(*   revert_returned  what revert_step returned, once pc is "revert_done"; *)
(*   revert_error     the StepResult's revert_error;                       *)
(*   outside   the files put on free paths from outside the program after  *)
(*             the step returned, as <<path, content>>.                    *)
(***************************************************************************)
StepInit ==
    /\ PipelineInit
    /\ RouterIdle
    /\ files \in [Paths -> Contents \cup Notes \cup {Absent}]
    /\ ctx = ExecutionContext
    /\ \E auto \in BOOLEAN :
          step = [pc |-> "process", status |-> "running", artifacts |-> <<>>,
                  job_status |-> "processing", auto_revert_on_error |-> auto,
                  raised |-> FALSE, before |-> files, recorded |-> <<>>,
                  committed_by_process |-> FALSE, reverted |-> <<>>,
                  revert_returned |-> FALSE, revert_error |-> None,
                  outside |-> {}]

\* The processor may call the context while process runs and the pending
\* list is within the bound.
InProcess == step.pc = "process" /\ Len(ctx.pending) < MaxOps

Record(a) == ctx' = [ctx EXCEPT !.pending = Append(@, a)]

CtxCreateFile(path, content) ==
    /\ InProcess
    /\ files[path] = Absent
    /\ files' = [files EXCEPT ![path] = content]
    /\ Record(Artifact(Len(ctx.pending) + 1, "file_create", path, None, content))
    /\ UNCHANGED <<step, pvars, rvars>>

CtxModifyFile(path, new_content) ==
    /\ InProcess
    /\ files[path] # Absent
    /\ files' = [files EXCEPT ![path] = new_content]
    /\ Record(Artifact(Len(ctx.pending) + 1, "file_modify", path, files[path],
                       new_content))
    /\ UNCHANGED <<step, pvars, rvars>>

CtxDeleteFile(path) ==
    /\ InProcess
    /\ files[path] # Absent
    /\ files' = [files EXCEPT ![path] = Absent]
    /\ Record(Artifact(Len(ctx.pending) + 1, "file_delete", path, files[path], None))
    /\ UNCHANGED <<step, pvars, rvars>>

CtxMoveFile(source, dest) ==
    /\ InProcess
    /\ files[source] # Absent
    /\ files[dest] = Absent
    /\ files' = [files EXCEPT ![dest] = files[source], ![source] = Absent]
    /\ Record(Artifact(Len(ctx.pending) + 1, "file_move", dest, source, dest))
    /\ UNCHANGED <<step, pvars, rvars>>

\* update_frontmatter reads the file, merges the updates into its
\* frontmatter and writes the rebuilt frontmatter before the body.
CtxUpdateFrontmatter(path, updates) ==
    LET before == parse_frontmatter(files[path])
        after_frontmatter == merge(before.frontmatter, updates)
    IN /\ InProcess
       /\ files[path] # Absent
       /\ files' = [files EXCEPT ![path] =
                       build_frontmatter(after_frontmatter, before.body)]
       /\ Record(Artifact(Len(ctx.pending) + 1, "frontmatter_update", path,
                          json_dumps(before.frontmatter),
                          json_dumps(after_frontmatter)))
       /\ UNCHANGED <<step, pvars, rvars>>

CtxRecordApiCall(reversible) ==
    LET a == Artifact(Len(ctx.pending) + 1, "external_api_create", "service:action",
                      None, "response")
    IN /\ InProcess
       /\ Record(IF reversible THEN [a EXCEPT !.reversibility = "partially_reversible"]
                 ELSE mark_irreversible(a))
       /\ UNCHANGED <<files, step, pvars, rvars>>

\* The processor commits its context itself.
CtxCommit ==
    /\ step.pc = "process"
    /\ ~ctx.committed
    /\ ctx' = commit(ctx, artifact_store).ctx
    /\ artifact_store' = commit(ctx, artifact_store).store
    /\ UNCHANGED <<files, step, db, active_jobs, tasks, next_id, worker, rvars>>

\* process returns a StepResult: the result takes its status and the
\* context's artifacts, __aexit__ commits, _do_execute saves the artifacts.
ProcessReturn(status) ==
    LET committed == commit(ctx, artifact_store)
    IN /\ step.pc = "process"
       /\ ctx' = committed.ctx
       /\ artifact_store' = artifact_store_save(committed.store, ctx.pending)
       /\ step' = [step EXCEPT
             !.pc = "returned", !.status = status, !.artifacts = ctx.pending,
             !.job_status = IF status = "awaiting_input" THEN "awaiting_input" ELSE @,
             !.recorded = ctx.pending, !.committed_by_process = ctx.committed]
       /\ UNCHANGED <<files, db, active_jobs, tasks, next_id, worker, rvars>>

\* process raises: __aexit__ rolls back, _do_execute marks the result failed,
\* rolls back again when auto_revert_on_error, and fails the job.
ProcessRaise ==
    LET first == rollback(ctx, files)
        second == IF step.auto_revert_on_error THEN rollback(first.ctx, first.files)
                  ELSE [ctx |-> first.ctx, files |-> first.files, reverted |-> <<>>]
    IN /\ step.pc = "process"
       /\ ctx' = second.ctx
       /\ files' = second.files
       /\ step' = [step EXCEPT
             !.pc = "returned", !.status = "failed", !.job_status = "failed",
             !.raised = TRUE, !.recorded = ctx.pending,
             !.committed_by_process = ctx.committed,
             !.reverted = first.reverted \o second.reverted]
       /\ UNCHANGED <<pvars, rvars>>

\* JobExecutor.revert_step on the step that returned: false when the result
\* cannot be reverted; else the artifacts are reverted last first and those
\* reverted are marked in the store, the result is marked reverted and the
\* job saved.  replaces: rename replaces an existing file.
ExecutorRevertStep(replaces) ==
    LET done == revert_loop(files, Reverse(step.artifacts), replaces, None)
        raised == {i \in 1..Len(step.artifacts) :
                      rename_raises(
                          revert_loop(files,
                              Reverse(SubSeq(step.artifacts, i + 1,
                                             Len(step.artifacts))),
                              replaces, None).files,
                          step.artifacts[i], replaces)}
    IN /\ step.pc = "returned"
       /\ IF step_can_revert(step)
          THEN /\ files' = done.files
               /\ artifact_store' =
                     mark_reverted(artifact_store,
                         {step.artifacts[i].id :
                             i \in (1..Len(step.artifacts)) \ raised})
               /\ step' = [step_mark_reverted(step) EXCEPT
                     !.pc = "revert_done", !.revert_returned = TRUE,
                     !.revert_error = done.revert_error]
          ELSE /\ step' = [step EXCEPT !.pc = "revert_done",
                                       !.revert_returned = FALSE]
               /\ UNCHANGED <<files, artifact_store>>
       /\ UNCHANGED <<ctx, db, active_jobs, tasks, next_id, worker, rvars>>

StepNext ==
    \/ \E path \in Paths, content \in Contents : CtxCreateFile(path, content)
    \/ \E path \in Paths, content \in Contents : CtxModifyFile(path, content)
    \/ \E path \in Paths : CtxDeleteFile(path)
    \/ \E source \in Paths, dest \in Paths : CtxMoveFile(source, dest)
    \/ \E path \in Paths, updates \in Updates : CtxUpdateFrontmatter(path, updates)
    \/ \E reversible \in BOOLEAN : CtxRecordApiCall(reversible)
    \/ CtxCommit
    \/ \E status \in {"completed", "failed", "awaiting_input"} : ProcessReturn(status)
    \/ ProcessRaise
    \/ \E replaces \in BOOLEAN : ExecutorRevertStep(replaces)

SpecStep == StepInit /\ [][StepNext]_vars

(***************************************************************************)
(* Properties of a step execution (SpecStep).                              *)
(***************************************************************************)
\* The file operations among the artifacts.
FileArtifacts(artifacts) ==
    SelectSeq(artifacts, LAMBDA a : a.artifact_type # "external_api_create")

C4_FailedStepLeavesNothing ==
    (step.pc = "returned" /\ step.status = "failed") => artifact_store = {}

(***************************************************************************)
(* SpecRouter: get_next_step over every registry of three processors,      *)
(* every should_process answer and every short history.                    *)
(***************************************************************************)
RouterNames == <<"a", "b", "c">>

RECURSIVE SetToSeq(_, _)
SetToSeq(S, order) ==
    IF order = <<>> THEN <<>>
    ELSE (IF Head(order) \in S THEN <<Head(order)>> ELSE <<>>)
         \o SetToSeq(S, Tail(order))

RouterRegistries ==
    {[names |-> RouterNames,
      requires |-> [n \in Range(RouterNames) |-> SetToSeq(req[n], RouterNames)],
      requires_input |-> [n \in Range(RouterNames) |-> "never"]] :
        req \in [Range(RouterNames) -> SUBSET Range(RouterNames)]}

RouterEntries ==
    {[StepResult(0, "j", n) EXCEPT !.status = st] :
        n \in Range(RouterNames), st \in {"completed", "failed"}}

RouterHistories ==
    UNION {[1..k -> RouterEntries] : k \in 0..MaxHistory}

RouterInit ==
    /\ PipelineInit
    /\ StepIdle
    /\ rt_reg \in RouterRegistries
    /\ rt_should \in [Range(RouterNames) -> {"true", "false", "raise"}]
    /\ \E h \in RouterHistories : rt_job = [Job("j") EXCEPT !.history = h]
    /\ rt_next = "unset"
    /\ OrderIdle

RouterCall ==
    /\ rt_next = "unset"
    /\ rt_next' = get_next_step(rt_reg, rt_should, rt_job)
    /\ UNCHANGED <<rt_reg, rt_should, rt_job, eo_processors, eo_result, watcher,
                   pvars, svars>>

RouterNext == RouterCall

SpecRouter == RouterInit /\ [][RouterNext]_vars

(***************************************************************************)
(* Properties of the router (SpecRouter).                                  *)
(***************************************************************************)
\* C9: get_next_step never returns the name of a step the job has completed
\* (a step with a history entry of status completed).
C9_CompletedNeverReturned ==
    (rt_next # "unset" /\ rt_next # None) =>
        \A i \in 1..Len(rt_job.history) :
            rt_job.history[i].status = "completed" =>
                rt_job.history[i].step_name # rt_next

\* A step was returned although an applicable step, free of requires, was
\* already completed.
C9_Witness ==
    /\ rt_next \notin {"unset", None}
    /\ \E i \in 1..Len(rt_job.history) :
          /\ rt_job.history[i].status = "completed"
          /\ rt_should[rt_job.history[i].step_name] = "true"
          /\ rt_reg.requires[rt_job.history[i].step_name] = <<>>

\* The answer the routing rule calls for: over the execution order of the
\* processors whose should_process is true, the first one that is not
\* completed and whose requires are all completed; None when there is none
\* (no applicable processor, no order for lack of an acyclic graph, or no
\* eligible step).
C10_Expected ==
    LET completed == {rt_job.history[i].step_name :
                         i \in {k \in 1..Len(rt_job.history) :
                                   rt_job.history[k].status = "completed"}}
        applicable == SelectSeq(rt_reg.names, LAMBDA n : rt_should[n] = "true")
        ordered == get_execution_order(rt_reg, applicable).order
        eligible(n) == /\ n \notin completed
                       /\ Range(rt_reg.requires[n]) \subseteq completed
        firsts == {i \in 1..Len(ordered) :
                      /\ eligible(ordered[i])
                      /\ \A k \in 1..(i - 1) : ~eligible(ordered[k])}
    IN IF firsts = {} THEN None ELSE ordered[CHOOSE i \in firsts : TRUE]

\* C10: get_next_step returns the first processor, in execution order over
\* the applicable processors, that is not completed and whose requires are
\* all completed, and None exactly when there is no such processor.
C10_FirstEligibleStep == rt_next # "unset" => rt_next = C10_Expected

\* A step with requires was returned, past an earlier step of the order.
C10_Witness ==
    /\ rt_next \notin {"unset", None}
    /\ rt_reg.requires[rt_next] # <<>>
    /\ get_execution_order(rt_reg,
          get_applicable_processors(rt_reg, rt_should)).order[1] # rt_next

(***************************************************************************)
(* SpecOrder: ProcessorRegistry.get_execution_order over every registry of *)
(* three processors and every short list of names, names that repeat and a *)
(* name that is not registered included.                                   *)
(***************************************************************************)
MaxNames == 3

Unregistered == "x"

OrderLists ==
    UNION {[1..k -> Range(RouterNames) \cup {Unregistered}] : k \in 0..MaxNames}

OrderInit ==
    /\ PipelineInit
    /\ StepIdle
    /\ rt_reg \in RouterRegistries
    /\ rt_should = [n \in Range(RouterNames) |-> "true"]
    /\ rt_job = None
    /\ rt_next = "unset"
    /\ eo_processors \in OrderLists
    /\ eo_result = NotCalled

OrderCall ==
    /\ ~eo_result.called
    /\ eo_result' = [called |-> TRUE] @@ get_execution_order(rt_reg, eo_processors)
    /\ UNCHANGED <<rt_reg, rt_should, rt_job, rt_next, eo_processors, watcher,
                   pvars, svars>>

OrderNext == OrderCall

SpecOrder == OrderInit /\ [][OrderNext]_vars

(***************************************************************************)
(* Properties of the dependency order (SpecOrder).                         *)
(***************************************************************************)
\* The dependency relation among the names of S: <<p, d>> when p requires d.
Requires(reg, S) ==
    {pd \in S \X S : InSeq(pd[2], get_dependencies(reg, pd[1]))}

\* The pairs joined by a chain of at most n pairs of R.
RECURSIVE Chains(_, _, _)
Chains(R, S, n) ==
    IF n <= 1 THEN R
    ELSE LET W == Chains(R, S, n - 1)
         IN W \cup {ac \in S \X S :
                       \E b \in S : <<ac[1], b>> \in W /\ <<b, ac[2]>> \in R}

\* <<p, d>> when p depends on d, directly or not, within S.
DependsOn(reg, S) == Chains(Requires(reg, S), S, Cardinality(S))

\* The names of S that lie on a cycle of the dependency relation within S.
OnCycle(reg, S) == {p \in S : <<p, p>> \in DependsOn(reg, S)}

\* The names of S that no order can place: those on a cycle and those that
\* depend on one.
Unresolvable(reg, S) ==
    {p \in S : \/ p \in OnCycle(reg, S)
               \/ \E c \in OnCycle(reg, S) : <<p, c>> \in DependsOn(reg, S)}

NoRepeats(s) == \A i \in 1..Len(s), k \in 1..Len(s) : s[i] = s[k] => i = k

\* order holds the names of processors, each as often as processors does.
IsPermutation(order, processors) ==
    \A n \in Range(order) \cup Range(processors) :
        Count(n, order) = Count(n, processors)

\* In order every processor stands after each of its requires found in it.
RespectsRequires(reg, order) ==
    \A i \in 1..Len(order), k \in 1..Len(order) :
        InSeq(order[k], get_dependencies(reg, order[i])) => k < i

\* C11 as stated: when the registry's dependency relation is acyclic,
\* get_execution_order(names) returns, for any list names, a permutation of
\* names in which every processor comes after each of its requires in names.
C11_AnyListOrdered ==
    (eo_result.called /\ OnCycle(rt_reg, Range(rt_reg.names)) = {}) =>
        /\ eo_result.ok
        /\ IsPermutation(eo_result.order, eo_processors)
        /\ RespectsRequires(rt_reg, eo_result.order)

\* C11 amended: when the registry's dependency relation is acyclic,
\* get_execution_order(names) returns, for any list names in which no name
\* repeats, a permutation of names in which every processor comes after each
\* of its requires that is in names.
C11_DistinctNamesOrdered ==
    (/\ eo_result.called
     /\ OnCycle(rt_reg, Range(rt_reg.names)) = {}
     /\ NoRepeats(eo_processors)) =>
        /\ eo_result.ok
        /\ IsPermutation(eo_result.order, eo_processors)
        /\ RespectsRequires(rt_reg, eo_result.order)

\* An order was returned for three names given with each dependent ahead of
\* what it requires: the order returned is the list reversed.
C11_Witness ==
    /\ eo_result.called
    /\ eo_result.ok
    /\ OnCycle(rt_reg, Range(rt_reg.names)) = {}
    /\ NoRepeats(eo_processors)
    /\ Len(eo_processors) = 3
    /\ InSeq(eo_processors[2], get_dependencies(rt_reg, eo_processors[1]))
    /\ InSeq(eo_processors[3], get_dependencies(rt_reg, eo_processors[2]))
    /\ eo_result.order = Reverse(eo_processors)

\* C12 as stated: for any list names, get_execution_order(names) raises the
\* circular-dependency error exactly when the dependency relation restricted
\* to names contains a cycle, and the error lists exactly the names left
\* unresolved: those on a cycle and those that depend on one.
C12_RaisesIffCycle ==
    eo_result.called =>
        /\ ~eo_result.ok <=> OnCycle(rt_reg, Range(eo_processors)) # {}
        /\ ~eo_result.ok =>
              eo_result.remaining =
                 SelectSeq(eo_processors,
                           LAMBDA p : p \in Unresolvable(rt_reg, Range(eo_processors)))

\* C12 amended: for any list names in which no name repeats,
\* get_execution_order(names) raises the circular-dependency error exactly
\* when the dependency relation restricted to names contains a cycle, and the
\* error lists exactly the names left unresolved, in the order of names.
C12_DistinctNamesRaiseIffCycle ==
    (eo_result.called /\ NoRepeats(eo_processors)) =>
        /\ ~eo_result.ok <=> OnCycle(rt_reg, Range(eo_processors)) # {}
        /\ ~eo_result.ok =>
              eo_result.remaining =
                 SelectSeq(eo_processors,
                           LAMBDA p : p \in Unresolvable(rt_reg, Range(eo_processors)))

\* The error was raised for three names of which one was placed, one lies on
\* a cycle and one only depends on the cycle.
C12_Witness ==
    /\ eo_result.called
    /\ ~eo_result.ok
    /\ NoRepeats(eo_processors)
    /\ Len(eo_processors) = 3
    /\ Len(eo_result.remaining) = 2
    /\ \E i \in 1..2 :
          eo_result.remaining[i] \notin OnCycle(rt_reg, Range(eo_processors))

\* The place of a registered name in the registration order.
RegistrationIndex(reg, n) == CHOOSE i \in 1..Len(reg.names) : reg.names[i] = n

\* The names that may be placed next once placed are: those not placed whose
\* requires within names are all placed.
Eligible(reg, names, placed) ==
    {n \in Range(names) \ Range(placed) :
        \A i \in 1..Len(get_dependencies(reg, n)) :
            LET d == get_dependencies(reg, n)[i]
            IN InSeq(d, names) => InSeq(d, placed)}

\* C13: in the order get_execution_order returns, each place is taken by the
\* earliest registered of the processors eligible for it.  Stated for names
\* that are registered, distinct and given in registration order, which is
\* how the router passes them.
C13_TiesByRegistrationOrder ==
    (/\ eo_result.called
     /\ eo_result.ok
     /\ eo_processors = SetToSeq(Range(eo_processors), rt_reg.names)) =>
        \A i \in 1..Len(eo_result.order) :
            \A n \in Eligible(rt_reg, eo_processors, SubSeq(eo_result.order, 1, i - 1)) :
                RegistrationIndex(rt_reg, eo_result.order[i])
                    <= RegistrationIndex(rt_reg, n)

(***************************************************************************)
(* SpecRevert: one job in a pipeline of three automatic processors A, B    *)
(* and C whose process completes or raises, with the commands called one   *)
(* at a time: a call is made only when no other call is in flight, and a   *)
(* call that has returned frees its slot.                                  *)
(***************************************************************************)
ChainNames == <<"A", "B", "C">>

\* B requires A and C requires B, or no processor requires another.
RevertRegistries ==
    {[names |-> ChainNames,
      requires |-> [n \in Range(ChainNames) |->
                       IF chained /\ n = "B" THEN <<"A">>
                       ELSE IF chained /\ n = "C" THEN <<"B">> ELSE <<>>],
      requires_input |-> [n \in Range(ChainNames) |-> "never"]] :
        chained \in BOOLEAN}

RevertInit ==
    /\ PipelineInit
    /\ StepIdle
    /\ OrderIdle
    /\ rt_reg \in RevertRegistries
    /\ rt_should = [n \in Range(ChainNames) |-> "true"]
    /\ rt_job = None
    /\ rt_next = "unset"

SeqProcessJob(j) == Live = {} /\ ProcessJob(j)

SeqRevertJob(j, to_step) == Live = {} /\ RevertJob(j, to_step)

\* The caller has the call's return value; the slot is free again.
CallReturns(t) ==
    /\ tasks[t].pc = "done"
    /\ tasks' = [tasks EXCEPT ![t] = IdleTask]
    /\ UNCHANGED <<db, artifact_store, active_jobs, next_id, worker, rvars, svars>>

RevertNext ==
    \/ CreateJob(Jobs[1])
    \/ SeqProcessJob(Jobs[1])
    \/ \E to_step \in Range(ChainNames) \cup {None} : SeqRevertJob(Jobs[1], to_step)
    \/ \E t \in Tasks : DriverStart(t)
    \/ \E t \in Tasks : DriverNextStep(t)
    \/ \E t \in Tasks, outcome \in {"completed", "raise"}, k \in 0..MaxArtifacts :
          DriverExecute(t, outcome, k)
    \/ \E t \in Tasks : DriverEmit(t)
    \/ \E t \in Tasks : DriverExit(t)
    \/ \E t \in Tasks : RevertBegin(t)
    \/ \E t \in Tasks, raising \in SUBSET (1..MaxArtifacts) :
          RevertStep(t, raising, FALSE)
    \/ \E t \in Tasks : RevertFinish(t)
    \/ \E t \in Tasks : CallReturns(t)

SpecRevert == RevertInit /\ [][RevertNext]_vars

(***************************************************************************)
(* Properties of revert_to_step and the drive after it (SpecRevert).       *)
(***************************************************************************)
StepNames(history) == [i \in 1..Len(history) |-> history[i].step_name]

Statuses(history) == [i \in 1..Len(history) |-> history[i].status]

\* A revert_job(id, to_step = A) at work on a job whose history is the runs
\* of A, B and C, A's being completed.
RevertingToA(t) ==
    /\ tasks[t].kind = "revert"
    /\ tasks[t].target = "A"
    /\ StepNames(tasks[t].job.history) = ChainNames
    /\ tasks[t].job.history[1].status = "completed"

\* revert_to_step starts: with B and C completed, C is to be reverted, then
\* B, and the job is saved as reverting.
C18_Begins(t) ==
    (/\ RevertingToA(t)
     /\ tasks[t].pc = "revert"
     /\ Statuses(tasks[t].job.history) = <<"completed", "completed", "completed">>
     /\ tasks'[t].pc = "reverting") =>
        /\ tasks'[t].todo = <<"C", "B">>
        /\ db'[tasks[t].jid].status = "reverting"

\* revert_to_step reverts a step: A's entry and A's artifacts stay as they
\* are, and B is not reverted while C is still to be reverted.
C18_Reverts(t) ==
    (/\ RevertingToA(t)
     /\ tasks[t].pc = "reverting"
     /\ tasks'[t].pc = "reverting") =>
        /\ tasks'[t].job.history[1] = tasks[t].job.history[1]
        /\ {a \in artifact_store' : a.step_name = "A"}
              = {a \in artifact_store : a.step_name = "A"}
        /\ tasks'[t].job.history[2].status = "reverted" =>
              tasks'[t].job.history[3].status # "completed"

\* revert_to_step ends: the job is saved pending without current_step, A
\* completed, neither B nor C completed any more.
C18_Ends(t) ==
    (/\ RevertingToA(t)
     /\ tasks[t].pc = "reverting"
     /\ tasks'[t].pc = "done") =>
        LET job == db'[tasks[t].jid]
        IN /\ job.status = "pending"
           /\ job.current_step = None
           /\ StepNames(job.history) = ChainNames
           /\ job.history[1] = tasks[t].job.history[1]
           /\ job.history[2].status # "completed"
           /\ job.history[3].status # "completed"
           /\ {a \in artifact_store' : a.step_name = "A"}
                 = {a \in artifact_store : a.step_name = "A"}

\* The drive after the revert: with A completed and B and C reverted, the
\* steps executed, while they complete, are B, then C, and the job is
\* completed after exactly these two.
C18_Reruns(t) ==
    LET history == tasks'[t].job.history
        later == SubSeq(history, 4, Len(history))
    IN (/\ tasks'[t].kind \in {"process", "poll"}
        /\ Len(history) >= 3
        /\ StepNames(SubSeq(history, 1, 3)) = ChainNames
        /\ Statuses(SubSeq(history, 1, 3)) = <<"completed", "reverted", "reverted">>
        /\ \A i \in 1..Len(later) : later[i].status = "completed") =>
           /\ tasks'[t].pc = "execute" =>
                 /\ Len(later) <= 1
                 /\ tasks'[t].result.step_name = <<"B", "C">>[Len(later) + 1]
           /\ StepNames(later) \in {<<>>, <<"B">>, <<"B", "C">>}
           /\ tasks'[t].job.status = "completed" => StepNames(later) = <<"B", "C">>

\* C18: after a job has completed A, B, C in that order, revert_job(id,
\* to_step = A) reverts C, then B, leaves A and its artifacts untouched and
\* ends with the job pending and current_step null; the drive that follows
\* executes exactly B, then C, and not A.
C18_RevertToStepThenRerun ==
    [][\A t \in Tasks : C18_Begins(t) /\ C18_Reverts(t) /\ C18_Ends(t) /\ C18_Reruns(t)]_vars

\* The job is completed again after the runs A, B, C, the revert to A and
\* the runs B, C.
C18_Witness ==
    \E j \in DOMAIN db :
        /\ db[j].status = "completed"
        /\ StepNames(db[j].history) = <<"A", "B", "C", "B", "C">>
        /\ Statuses(db[j].history)
              = <<"completed", "reverted", "reverted", "completed", "completed">>
        /\ \E a \in artifact_store : a.step_name = "A" /\ a.status = "created"
        /\ \E a \in artifact_store : a.step_name = "C" /\ a.status = "reverted"


(***************************************************************************)
(* Properties of revert_step on the step that returned (SpecStep).         *)
(***************************************************************************)
FullyReversible(artifacts) ==
    \A i \in 1..Len(artifacts) : artifacts[i].reversibility = "fully_reversible"

\* C19: once a step whose artifacts are all fully reversible has run and has
\* been reverted, every path has the existence and the content it had before
\* the step.
C19_RevertRestoresFiles ==
    (step.pc = "revert_done" /\ step.revert_returned
        /\ FullyReversible(step.artifacts))
        => files = step.before


\* The step is completed and each of its artifacts has status created and a
\* reversibility other than irreversible.
Revertable(s) ==
    /\ s.status = "completed"
    /\ \A a \in Range(s.artifacts) :
          a.status = "created" /\ a.reversibility # "irreversible"

\* C20: a StepResult becomes reverted only from completed with every
\* artifact reversible; revert_step on any other step returns false and
\* leaves the job, the result, the files and the artifact store as they were.
C20_RevertOnlyRevertable ==
    [][/\ (step'.status = "reverted" /\ step.status # "reverted")
            => Revertable(step)
       /\ (step.pc = "returned" /\ step'.pc = "revert_done" /\ ~Revertable(step))
            => /\ ~step'.revert_returned
               /\ step'.status = step.status
               /\ step'.artifacts = step.artifacts
               /\ step'.job_status = step.job_status
               /\ files' = files
               /\ artifact_store' = artifact_store
               /\ db' = db]_vars

\* revert_step has refused a completed step that had created a file and
\* recorded an irreversible call: the file is still there.
C20_Witness ==
    /\ step.pc = "revert_done"
    /\ ~step.revert_returned
    /\ step.status = "completed"
    /\ \E a \in Range(step.artifacts) : a.reversibility = "irreversible"
    /\ \E a \in Range(step.artifacts) : a.artifact_type = "file_create"
    /\ files # step.before
    /\ artifact_store # {}


(***************************************************************************)
(* Properties of revert_step when the reversal of an artifact raises       *)
(* (SpecRevert: processor.revert itself never raises there, so a           *)
(* revert_error comes from an artifact).                                   *)
(***************************************************************************)
\* C21: a step result that revert_step marks reverted has had all its
\* artifacts reversed, so it carries no revert_error; a result whose
\* artifact reversal raised is not marked reverted.
C21_RevertedOnlyIfReversalCompleted ==
    [][\A t \in Tasks :
          (tasks[t].pc = "reverting" /\ tasks'[t].pc = "reverting") =>
              \A i \in 1..Len(tasks[t].job.history) :
                  (/\ tasks[t].job.history[i].status # "reverted"
                   /\ tasks'[t].job.history[i].status = "reverted")
                      => tasks'[t].job.history[i].revert_error = None]_vars


(***************************************************************************)
(* SpecOutside: the step execution of SpecStep in a directory that is also *)
(* written from outside the program: after the step has returned, a file   *)
(* may appear on a free path before the step is reverted.                  *)
(***************************************************************************)
OutsideCreate(path, content) ==
    /\ step.pc = "returned"
    /\ step.outside = {}
    /\ files[path] = Absent
    /\ files' = [files EXCEPT ![path] = content]
    /\ step' = [step EXCEPT !.outside = {<<path, content>>}]
    /\ UNCHANGED <<ctx, pvars, rvars>>

OutsideNext ==
    \/ StepNext
    \/ \E path \in Paths, content \in Contents : OutsideCreate(path, content)

SpecOutside == StepInit /\ [][OutsideNext]_vars

OnlyMoves(artifacts) ==
    \A i \in 1..Len(artifacts) : artifacts[i].artifact_type = "file_move"

\* C22: once a step that only moved files has been reverted, a file that
\* had appeared on the original path of a move is still there with its
\* content, and the step result carries the conflict as its revert_error.
C22_MoveBackNeverOverwrites ==
    (/\ step.pc = "revert_done"
     /\ step.revert_returned
     /\ step.artifacts # <<>>
     /\ OnlyMoves(step.artifacts)
     /\ step.outside # {})
        => /\ \A f \in step.outside : files[f[1]] = f[2]
           /\ step.revert_error # None


(***************************************************************************)
(* SpecWatch: core/watchers/file_watcher.py, a running FileWatcher with    *)
(* its debounce loop, and the pipeline's handler of the file events the    *)
(* loop delivers.  Time is counted in ticks of the clock.  watcher holds   *)
(*   now       the clock;                                                  *)
(*   initial_processor   the watch's WatchConfig.initial_processor;        *)
(*   pending   _pending_events in dict order: path, event_type,            *)
(*             scheduled_time, and seq, the place in log of the event;     *)
(*   pc        the debounce loop: "scan", "emit" or "sleep";               *)
(*   events_to_process   the events the loop has taken out to emit;        *)
(*   wake      when the sleep of the loop ends;                            *)
(*   log       the events queued (kind "queued") and the events handed to  *)
(*             the sink (kind "delivered", seq the queued event carried),  *)
(*             in the order they happened, each with the clock;            *)
(*   invoked   the calls Pipeline._emit made: <<seq, event, subscriber>>.  *)
(***************************************************************************)
MaxTime == 4

MaxEvents == 3

debounce_seconds == 2

\* asyncio.sleep(0.1) of the debounce loop, in ticks.
Poll == 1

WatchEvents == {"created", "modified", "deleted"}

WatchedPaths == {"p"}

\* The callbacks registered with Pipeline.on for each event, in order.
Subscribers == <<"s1", "s2">>

\* An emit that stops at the first callback that raises and lets the
\* exception through.
emit_until_raise(event, callbacks, raising) ==
    LET bad == {i \in 1..Len(callbacks) : callbacks[i] \in raising}
        last == IF bad = {} THEN Len(callbacks)
                ELSE CHOOSE i \in bad : \A k \in bad : i <= k
    IN [invoked |-> [i \in 1..last |-> <<event, callbacks[i]>>],
        raised |-> bad # {}]

\* Pipeline._emit: every callback of the event is awaited in turn; what a
\* callback raises is logged.  raising: the callbacks that raise.
emit(event, callbacks, raising) ==
    [invoked |-> [i \in 1..Len(callbacks) |-> <<event, callbacks[i]>>],
     raised |-> FALSE]

\* The loop of _create_job_from_file_event over the existing jobs returns
\* None: some job of the path is not a completed job of a modified file.
returns_none(store, path, event_type) ==
    \E j \in DOMAIN store :
        /\ store[j].source_path = path
        /\ ~(event_type = "modified" /\ store[j].status = "completed")

FreshJobs == {i \in 1..Len(Jobs) : Jobs[i] \notin DOMAIN db}

FreshJob == Jobs[CHOOSE i \in FreshJobs : \A k \in FreshJobs : i <= k]

\* Pipeline._handle_file_event: emit file_detected, then for a created or
\* modified file _create_job_from_file_event: look for a job of the path,
\* else create_job (save, emit job_created) and set the initial processor.
\* fails: JobStore.list_all raises.  Gives the job store, the subscriber
\* calls and whether an exception leaves the handler.
handle_file_event(event, initial_processor, raising, fails) ==
    LET detected == emit("file_detected", Subscribers, raising)
        job == [Job(FreshJob) EXCEPT !.source_path = event.path]
        created == emit("job_created", Subscribers, raising)
        started == IF initial_processor = None THEN job
                   ELSE [job EXCEPT !.current_step = initial_processor]
    IN IF detected.raised
       THEN [db |-> db, invoked |-> detected.invoked, raised |-> TRUE]
       ELSE IF event.event_type \notin {"created", "modified"}
       THEN [db |-> db, invoked |-> detected.invoked, raised |-> FALSE]
       ELSE IF fails
       THEN [db |-> db, invoked |-> detected.invoked, raised |-> TRUE]
       ELSE IF returns_none(db, event.path, event.event_type)
       THEN [db |-> db, invoked |-> detected.invoked, raised |-> FALSE]
       ELSE IF created.raised
       THEN [db |-> job_store_save(job),
             invoked |-> detected.invoked \o created.invoked, raised |-> TRUE]
       ELSE [db |-> job_store_save(started),
             invoked |-> detected.invoked \o created.invoked, raised |-> FALSE]

\* The job stores a watcher may start over: no job, or one job of a watched
\* file, pending, completed or failed.
WatchStores ==
    {[j \in {} |-> Job(j)]}
        \cup {("j1" :> [Job("j1") EXCEPT !.source_path = path]) :
                  path \in WatchedPaths}
        \cup {("j1" :> complete([Job("j1") EXCEPT !.source_path = path])) :
                  path \in WatchedPaths}
        \cup {("j1" :> fail([Job("j1") EXCEPT !.source_path = path], "error")) :
                  path \in WatchedPaths}

\* FileWatcher.start, over a pipeline that is not processing.
WatchInit ==
    /\ db \in WatchStores
    /\ artifact_store = {}
    /\ active_jobs = {}
    /\ tasks = [t \in Tasks |-> IdleTask]
    /\ next_id = 1
    /\ worker = [pc |-> "sleep", pending |-> <<>>, running |-> TRUE]
    /\ StepIdle
    /\ RouterIdle
    /\ \E initial_processor \in {None, "A"} :
          watcher = [pc |-> "scan", now |-> 0,
                     initial_processor |-> initial_processor,
                     pending |-> <<>>, events_to_process |-> <<>>, wake |-> 0,
                     log |-> <<>>, invoked |-> {}]

wunchanged == <<artifact_store, active_jobs, tasks, next_id, worker, svars,
                rt_reg, rt_should, rt_job, rt_next, eo_processors, eo_result>>

\* The clock advances, while the loop sleeps or awaits the sink: the loop
\* itself is never late.
Tick ==
    /\ watcher.now < MaxTime
    /\ \/ watcher.pc = "emit"
       \/ watcher.pc = "sleep" /\ watcher.now < watcher.wake
    /\ watcher' = [watcher EXCEPT !.now = @ + 1]
    /\ UNCHANGED <<db, wunchanged>>

\* _watch_directory gets a change of a watched file and calls _queue_event:
\* the path's pending event is replaced, with a new deadline.
QueueEvent(path, event_type) ==
    LET n == Len(watcher.log) + 1
        new == [path |-> path, event_type |-> event_type,
                scheduled_time |-> watcher.now + debounce_seconds, seq |-> n]
        at == {i \in 1..Len(watcher.pending) : watcher.pending[i].path = path}
    IN /\ Cardinality({i \in 1..Len(watcher.log) :
                          watcher.log[i].kind = "queued"}) < MaxEvents
       /\ watcher' = [watcher EXCEPT
             !.pending = IF at = {} THEN Append(@, new)
                         ELSE [i \in 1..Len(@) |-> IF i \in at THEN new ELSE @[i]],
             !.log = Append(@, [kind |-> "queued", path |-> path,
                                event_type |-> event_type, at |-> watcher.now,
                                seq |-> n])]
       /\ UNCHANGED <<db, wunchanged>>

\* The top of the loop of _process_debounce_queue: the pending events whose
\* scheduled_time has come are taken out of _pending_events.
DrainScan ==
    LET ready(e) == watcher.now >= e.scheduled_time
        waiting(e) == ~ready(e)
        events == SelectSeq(watcher.pending, ready)
    IN /\ watcher.pc = "scan"
       /\ watcher' = [watcher EXCEPT
             !.events_to_process = events,
             !.pending = SelectSeq(@, waiting),
             !.pc = IF events = <<>> THEN "sleep" ELSE "emit",
             !.wake = IF events = <<>> THEN watcher.now + Poll ELSE @]
       /\ UNCHANGED <<db, wunchanged>>

\* _emit_event of the next event taken out: the sink, Pipeline.
\* _handle_file_event, is awaited and what it raises is logged.
DrainEmit(raising, fails) ==
    LET event == Head(watcher.events_to_process)
        handled == handle_file_event(event, watcher.initial_processor, raising, fails)
        rest == Tail(watcher.events_to_process)
    IN /\ watcher.pc = "emit"
       /\ FreshJobs # {}
       /\ db' = handled.db
       /\ watcher' = [watcher EXCEPT
             !.events_to_process = rest,
             !.pc = IF rest = <<>> THEN "sleep" ELSE "emit",
             !.wake = IF rest = <<>> THEN watcher.now + Poll ELSE @,
             !.log = Append(@, [kind |-> "delivered", path |-> event.path,
                                event_type |-> event.event_type,
                                at |-> watcher.now, seq |-> event.seq,
                                raising |-> raising, fails |-> fails]),
             !.invoked = @ \cup {<<event.seq, c[1], c[2]>> :
                                    c \in Range(handled.invoked)}]
       /\ UNCHANGED wunchanged

\* The sleep of the loop ends.
DrainWake ==
    /\ watcher.pc = "sleep"
    /\ watcher.now >= watcher.wake
    /\ watcher' = [watcher EXCEPT !.pc = "scan"]
    /\ UNCHANGED <<db, wunchanged>>

WatchNext ==
    \/ Tick
    \/ \E path \in WatchedPaths, event_type \in WatchEvents :
          QueueEvent(path, event_type)
    \/ DrainScan
    \/ \E raising \in SUBSET Range(Subscribers), fails \in BOOLEAN :
          DrainEmit(raising, fails)
    \/ DrainWake

SpecWatch == WatchInit /\ [][WatchNext]_vars

(***************************************************************************)
(* Properties of the watcher (SpecWatch).                                  *)
(***************************************************************************)
QueuedAt == {i \in 1..Len(watcher.log) : watcher.log[i].kind = "queued"}

DeliveredAt == {d \in 1..Len(watcher.log) : watcher.log[d].kind = "delivered"}

\* The events queued for the path of event i after it.
Later(i) ==
    {k \in QueuedAt : k > i /\ watcher.log[k].path = watcher.log[i].path}

Deadline(i) == watcher.log[i].at + debounce_seconds

\* Event i is the last of its burst: no event of its path followed before
\* its deadline.
LastOfBurst(i) ==
    \A k \in Later(i) :
        (\A m \in Later(i) : k <= m) => watcher.log[k].at >= Deadline(i)

Deliveries(i) == {d \in DeliveredAt : watcher.log[d].seq = i}

\* Event i still waits in the watcher for its delivery.
Held(i) ==
    \/ \E k \in 1..Len(watcher.pending) : watcher.pending[k].seq = i
    \/ \E k \in 1..Len(watcher.events_to_process) :
          watcher.events_to_process[k].seq = i

\* C23: of each burst of events on a path the sink gets exactly one event:
\* the last event of the burst is delivered once (or still waits for its
\* delivery), with its own event type and not before its deadline, and no
\* other event of the burst is delivered.
C23_OneEventPerBurst ==
    \A i \in QueuedAt :
        /\ LastOfBurst(i) => (Deliveries(i) # {} \/ Held(i))
        /\ ~LastOfBurst(i) => Deliveries(i) = {}
        /\ Cardinality(Deliveries(i)) <= 1
        /\ \A d \in Deliveries(i) :
              /\ watcher.log[d].event_type = watcher.log[i].event_type
              /\ watcher.log[d].at >= Deadline(i)


\* C24: no two jobs of the store have the same source_path: whatever events
\* come for a file, it has one job.
C24_OneJobPerSourcePath ==
    \A j \in DOMAIN db, k \in DOMAIN db :
        (j # k /\ db[j].source_path # None) => db[j].source_path # db[k].source_path

\* The subscriber calls and the job store that the handler of an event gives
\* when no subscriber raises.
Undisturbed(event, fails) ==
    handle_file_event(event, watcher.initial_processor, {}, fails)

\* C25: when the loop hands an event to the sink, every subscriber of
\* file_detected is called whichever subscribers raise, the job store ends as
\* it would had none raised, with every subscriber of job_created called
\* when a job is created, and the loop goes on to its next event or sleep.
C25_RaisingSubscriberIsolated ==
    [][(/\ watcher.pc = "emit"
        /\ Len(watcher'.log) = Len(watcher.log) + 1
        /\ watcher'.log[Len(watcher'.log)].kind = "delivered") =>
          LET event == Head(watcher.events_to_process)
              delivered == watcher'.log[Len(watcher'.log)]
              expected == Undisturbed(event, delivered.fails)
          IN /\ \A i \in 1..Len(Subscribers) :
                    <<event.seq, "file_detected", Subscribers[i]>> \in watcher'.invoked
             /\ db' = expected.db
             /\ db' # db =>
                    \A i \in 1..Len(Subscribers) :
                        <<event.seq, "job_created", Subscribers[i]>> \in watcher'.invoked
             /\ watcher'.events_to_process = Tail(watcher.events_to_process)
             /\ watcher'.pc \in {"emit", "sleep"}]_vars

\* The first subscriber raised on both events of a delivery; the second was
\* called for both, the job was created, and the loop has delivered a later
\* event as well.
C25_Witness ==
    \E d \in DeliveredAt :
        /\ watcher.log[d].raising = {Subscribers[1]}
        /\ <<watcher.log[d].seq, "file_detected", Subscribers[2]>> \in watcher.invoked
        /\ <<watcher.log[d].seq, "job_created", Subscribers[2]>> \in watcher.invoked
        /\ \E j \in DOMAIN db : db[j].source_path = watcher.log[d].path
        /\ \E e \in DeliveredAt : e > d


(***************************************************************************)
(* SpecStop: the pipeline of Spec with Pipeline.stop, cut at its           *)
(* suspension points.  Once stop has closed the database the behaviour is  *)
(* followed no further.                                                    *)
(***************************************************************************)
\* stop, up to its first await: the running flag is cleared.
Stop ==
    /\ worker.running
    /\ worker' = [worker EXCEPT !.running = FALSE]
    /\ UNCHANGED <<db, artifact_store, active_jobs, tasks, next_id, rvars, svars>>

\* The rest of stop: the worker task is cancelled, the plugins are unloaded
\* and the database is closed.
StopFinish ==
    /\ ~worker.running
    /\ worker.pc # "closed"
    /\ worker' = [worker EXCEPT !.pc = "closed", !.pending = <<>>]
    /\ UNCHANGED <<db, artifact_store, active_jobs, tasks, next_id, rvars, svars>>

StopNext ==
    \/ worker.pc # "closed" /\ Next
    \/ Stop
    \/ StopFinish

SpecStop == Init /\ [][StopNext]_vars

\* C26: once stop has cleared the running flag, no driver of a job in
\* flight starts another step execution: a driver that is not executing a
\* step does not begin one.
C26_NoStepStartedAfterStop ==
    [][\A t \in Tasks :
          (~worker.running /\ tasks[t].pc = "loop")
              => tasks'[t].pc # "execute"]_vars


\* The driver tasks that were spawned and have not ended.
LiveDrivers(ts, kinds) ==
    {t \in Tasks : ts[t].kind \in kinds /\ ts[t].pc \notin {"idle", "done"}}

\* The driver tasks a step of the worker spawns.
Spawned == {t \in Tasks : tasks[t].pc = "idle" /\ tasks'[t].kind = "poll"}

\* C28: the driver tasks a poll spawns are for jobs whose id is not in the
\* active-job set when the poll spawns them, and no job has two of the
\* worker's driver tasks in flight.
C28_PollSpawnsNoActiveJob ==
    [][/\ \A t \in Spawned : tasks'[t].jid \notin active_jobs
       /\ \A t \in Spawned : \A u \in LiveDrivers(tasks', {"poll"}) :
              tasks'[u].jid = tasks'[t].jid => u = t]_<<TaskPcs>>

\* A poll has listed a pending row whose job entered the active set before
\* the poll spawns its drivers.
C28_Witness ==
    /\ worker.pc = "listed"
    /\ \E i \in 1..Len(worker.pending) : worker.pending[i].id \in active_jobs


(***************************************************************************)
(* SpecResume: Spec with direct calls of JobExecutor.resume_step that      *)
(* raise: for a processor that is not registered, for a step whose most    *)
(* recent StepResult is not awaiting input, for input the processor        *)
(* rejects.  The call ends in its slot with pc "raised", holding the job   *)
(* object as the call left it and the error in last.                       *)
(***************************************************************************)
ResumeStepRaise(j, step_name, valid) ==
    /\ j \in DOMAIN db
    /\ FreeSlots # {}
    /\ LET call == resume_step(rt_reg, db[j], step_name, "input", valid)
       IN /\ call.raised # None
          /\ tasks' = [tasks EXCEPT ![FreeSlot] =
                [NewTask("resume_step", call.job) EXCEPT
                    !.pc = "raised", !.last = call.raised, !.target = step_name]]
    /\ UNCHANGED <<db, artifact_store, active_jobs, next_id, worker, rvars, svars>>

ResumeNext ==
    \/ Next
    \/ \E j \in JobIds, step_name \in Range(Processors) \cup {Unregistered},
          valid \in BOOLEAN : ResumeStepRaise(j, step_name, valid)

SpecResume == Init /\ [][ResumeNext]_vars

\* C29: a resume_step that raises (processor not registered, most recent
\* StepResult of the step not awaiting input, input rejected) leaves the job
\* it was given as the store holds it (status, history, the step's
\* StepResult, data bag) and writes nothing to the stores.
C29_ResumeRaiseChangesNothing ==
    [][\A t \in Tasks :
          (tasks[t].pc = "idle" /\ tasks'[t].pc = "raised") =>
              /\ tasks'[t].last \in {"not found", "not awaiting input", "invalid input"}
              /\ tasks'[t].job = db[tasks'[t].jid]
              /\ db' = db
              /\ artifact_store' = artifact_store]_<<db, TaskPcs>>

\* resume_step has rejected the input for a step that was awaiting it.
C29_Witness ==
    \E t \in Tasks :
        /\ tasks[t].pc = "raised"
        /\ tasks[t].last = "invalid input"
        /\ tasks[t].job.status = "awaiting_input"


(***************************************************************************)
(* SpecSkip: Spec with direct calls of JobExecutor.execute_step for a step *)
(* that cannot run.  The call ends in its slot with pc "skipped", holding  *)
(* the StepResult it returned and the job object as the call left it.      *)
(***************************************************************************)
\* An execute_step that marks the job processing and saves it before it asks
\* whether the step can run.
execute_step_marks_first(reg, job, step_name, id, now) ==
    IF ~registered(reg, step_name)
    THEN [raised |-> "not found", result |-> None, job |-> job, saved |-> FALSE]
    ELSE IF ~can_run_step(reg, job, step_name)
    THEN [raised |-> None,
          result |-> step_skip(StepResult(id, job.id, step_name),
                               can_run_step_reason(reg, job, step_name)),
          job |-> start_processing(job, step_name, now), saved |-> TRUE]
    ELSE [raised |-> None,
          result |-> step_start(StepResult(id, job.id, step_name)),
          job |-> start_processing(job, step_name, now), saved |-> TRUE]

\* JobExecutor.execute_step up to its first save: the error it raises, the
\* StepResult it has made, the job as the call leaves it, and whether it
\* saved the job.
execute_step(reg, job, step_name, id, now) ==
    IF ~registered(reg, step_name)
    THEN [raised |-> "not found", result |-> None, job |-> job, saved |-> FALSE]
    ELSE IF ~can_run_step(reg, job, step_name)
    THEN [raised |-> None,
          result |-> step_skip(StepResult(id, job.id, step_name),
                               can_run_step_reason(reg, job, step_name)),
          job |-> job, saved |-> FALSE]
    ELSE [raised |-> None,
          result |-> step_start(StepResult(id, job.id, step_name)),
          job |-> start_processing(job, step_name, now), saved |-> TRUE]

ExecuteStepSkip(j, step_name) ==
    /\ j \in DOMAIN db
    /\ FreeSlots # {}
    /\ next_id <= ResultLimit
    /\ LET call == execute_step(rt_reg, db[j], step_name, next_id, ToString(next_id))
       IN /\ call.raised = None
          /\ call.result.status = "skipped"
          /\ db' = IF call.saved THEN job_store_save(call.job) ELSE db
          /\ tasks' = [tasks EXCEPT ![FreeSlot] =
                [NewTask("execute_step", call.job) EXCEPT
                    !.pc = "skipped", !.result = call.result, !.target = step_name]]
    /\ next_id' = next_id + 1
    /\ UNCHANGED <<artifact_store, active_jobs, worker, rvars, svars>>

SkipNext ==
    \/ Next
    \/ \E j \in JobIds, step_name \in Range(Processors) : ExecuteStepSkip(j, step_name)

SpecSkip == Init /\ [][SkipNext]_vars

\* C30: an execute_step for a step that cannot run (already completed, or a
\* dependency not completed) returns a skipped StepResult carrying the
\* reason, ends without an outcome of process, an artifact or an event, and
\* leaves the job it was given (status, current_step, history) and the
\* stored record as they were.
C30_SkipChangesNothing ==
    [][\A t \in Tasks :
          (tasks[t].pc = "idle" /\ tasks'[t].pc = "skipped") =>
              LET r == tasks'[t].result
                  job == db[tasks'[t].jid]
              IN /\ ~can_run_step(rt_reg, job, r.step_name)
                 /\ r.status = "skipped"
                 /\ r.skip_reason = (IF has_completed_step(job, r.step_name)
                                     THEN "already completed"
                                     ELSE "missing dependencies")
                 /\ tasks'[t].last = None
                 /\ tasks'[t].emitted = {}
                 /\ tasks'[t].job = job
                 /\ \A i \in 1..Len(job.history) : job.history[i].id # r.id
                 /\ db' = db
                 /\ artifact_store' = artifact_store]_<<db, TaskPcs>>

\* execute_step was called for a step the job had completed.
C30_Witness ==
    \E t \in Tasks :
        /\ tasks[t].pc = "skipped"
        /\ tasks[t].result.skip_reason = "already completed"
        /\ tasks[t].job.history # <<>>


\* The processors whose should_process answers true for the job.
Applicable == {n \in Range(rt_reg.names) : rt_should[n] = "true"}

\* A set of processors with a dependency cycle inside it.
Cyclic(S) ==
    \E C \in SUBSET S \ {{}} :
        \A n \in C : \E i \in 1..Len(rt_reg.requires[n]) : rt_reg.requires[n][i] \in C

\* The steps the job has completed.
CompletedNames ==
    {rt_job.history[i].step_name :
        i \in {k \in 1..Len(rt_job.history) : rt_job.history[k].status = "completed"}}

\* C31: get_next_step gives its caller a processor name or null, never an
\* error: a processor whose should_process raises is never returned and does
\* not keep the others from being considered (an applicable processor without
\* requires that is not completed keeps a call without cycle from returning
\* null), and a dependency cycle among the applicable processors gives null.
C31_NextStepNeverRaises ==
    rt_next # "unset" =>
        /\ rt_next \in Range(rt_reg.names) \cup {None}
        /\ rt_next # None => rt_should[rt_next] = "true"
        /\ (/\ ~Cyclic(Applicable)
            /\ \E n \in Applicable \ CompletedNames : rt_reg.requires[n] = <<>>)
              => rt_next # None
        /\ Cyclic(Applicable) => rt_next = None

\* A step was returned that comes after a processor whose should_process
\* raised.
C31_Witness ==
    /\ rt_next \notin {"unset", None}
    /\ \E i, k \in 1..Len(rt_reg.names) :
          /\ i < k
          /\ rt_should[rt_reg.names[i]] = "raise"
          /\ rt_reg.names[k] = rt_next


(***************************************************************************)
(* SpecRevertAll: the commands of one job, one call after the other, over  *)
(* the registry of Spec: process_job, resume_job, revert_job without       *)
(* to_step (revert_all), each on the job as the store holds it.            *)
(***************************************************************************)
SeqResumeJob(j) == Live = {} /\ ResumeJob(j, TRUE)

RevertAllNext ==
    \/ CreateJob(Jobs[1])
    \/ SeqProcessJob(Jobs[1])
    \/ SeqResumeJob(Jobs[1])
    \/ SeqRevertJob(Jobs[1], None)
    \/ \E t \in Tasks : DriverStart(t)
    \/ \E t \in Tasks : DriverNextStep(t)
    \/ \E t \in Tasks : DriverAwaitInput(t)
    \/ \E t \in Tasks, outcome \in {"completed", "raise"}, k \in 0..MaxArtifacts :
          DriverExecute(t, outcome, k)
    \/ \E t \in Tasks, outcome \in {"completed", "raise"}, k \in 0..MaxArtifacts :
          ResumeStep(t, outcome, k)
    \/ \E t \in Tasks : DriverEmit(t)
    \/ \E t \in Tasks : DriverExit(t)
    \/ \E t \in Tasks : RevertBegin(t)
    \/ \E t \in Tasks, raising \in SUBSET (1..MaxArtifacts) :
          RevertStep(t, raising, FALSE)
    \/ \E t \in Tasks : RevertFinish(t)
    \/ \E t \in Tasks : CallReturns(t)

SpecRevertAll == Init /\ [][RevertAllNext]_vars

\* The names of the history entries that can be reverted, last entry first.
RevertableLastFirst(history) ==
    LET n == Len(history)
        at == {i \in 1..n : step_can_revert(history[i])}
        place(i) == Cardinality({k \in at : k >= i})
    IN [p \in 1..Cardinality(at) |->
           history[CHOOSE i \in at : place(i) = p].step_name]

\* C32: revert_all saves the job as reverting and takes up its revertable
\* history entries last first; when it finishes the job is saved as reverted
\* and no entry of its history can still be reverted.
C32_RevertAllLeavesNothingRevertable ==
    [][\A t \in Tasks :
          (tasks[t].kind = "revert" /\ tasks[t].target = None) =>
              /\ (tasks[t].pc = "revert" /\ tasks'[t].pc = "reverting") =>
                    /\ db'[tasks[t].jid].status = "reverting"
                    /\ tasks'[t].todo = RevertableLastFirst(tasks[t].job.history)
              /\ (tasks[t].pc = "reverting" /\ tasks'[t].pc = "done") =>
                    /\ db'[tasks[t].jid].status = "reverted"
                    /\ \A i \in 1..Len(db'[tasks[t].jid].history) :
                           ~step_can_revert(db'[tasks[t].jid].history[i])]_<<db, TaskPcs>>


(***************************************************************************)
(* SpecMatch: WatchConfig.matches_file and the filter of                   *)
(* FileWatcher._watch_directory over small paths and glob patterns.  A     *)
(* string is the sequence of its characters; a path is its parts, whether  *)
(* it is absolute, and whether it is a directory on disk.                  *)
(***************************************************************************)
MaxPatterns == 2

GlobPatterns ==
    {<<"*">>, <<"a", "*">>, <<"*", "b">>, <<"a", "/", "*">>, <<"?">>, <<"a", "b">>}

FileNames == {<<"a">>, <<"b">>, <<"a", "b">>}

MatchPaths ==
    {[parts |-> parts, absolute |-> absolute, is_dir |-> is_dir] :
        parts \in [1..1 -> FileNames] \cup [1..2 -> FileNames],
        absolute \in BOOLEAN, is_dir \in BOOLEAN}

PatternLists == UNION {[1..k -> GlobPatterns] : k \in 0..MaxPatterns}

MatchConfigs ==
    {[patterns |-> patterns, ignore_patterns |-> ignore_patterns] :
        patterns \in PatternLists, ignore_patterns \in PatternLists}

\* fnmatch.fnmatch on a POSIX system: the pattern has to match the whole
\* string; * matches any run of characters, the separator included, and ?
\* any one character.
RECURSIVE fnmatch(_, _)
fnmatch(name, pat) ==
    IF pat = <<>> THEN name = <<>>
    ELSE IF Head(pat) = "*"
    THEN \/ fnmatch(name, Tail(pat))
         \/ name # <<>> /\ fnmatch(Tail(name), pat)
    ELSE /\ name # <<>>
         /\ Head(pat) = "?" \/ Head(pat) = Head(name)
         /\ fnmatch(Tail(name), Tail(pat))

\* Path.name.
path_name(file_path) == file_path.parts[Len(file_path.parts)]

RECURSIVE path_join(_)
path_join(parts) ==
    IF Len(parts) = 1 THEN parts[1]
    ELSE parts[1] \o <<"/">> \o path_join(Tail(parts))

\* str(Path).
path_str(file_path) ==
    (IF file_path.absolute THEN <<"/">> ELSE <<>>) \o path_join(file_path.parts)

\* The loop over ignore_patterns: TRUE when it returns False for the path.
RECURSIVE ignore_loop(_, _, _)
ignore_loop(filename, full, ignore_patterns) ==
    IF ignore_patterns = <<>> THEN FALSE
    ELSE IF fnmatch(filename, Head(ignore_patterns)) THEN TRUE
    ELSE IF fnmatch(full, Head(ignore_patterns)) THEN TRUE
    ELSE ignore_loop(filename, full, Tail(ignore_patterns))

\* The loop over patterns: TRUE when it returns True for the file name.
RECURSIVE patterns_loop(_, _)
patterns_loop(filename, patterns) ==
    IF patterns = <<>> THEN FALSE
    ELSE IF fnmatch(filename, Head(patterns)) THEN TRUE
    ELSE patterns_loop(filename, Tail(patterns))

\* A matches_file that tries the ignore patterns on the file name only.
matches_file_by_name(config, file_path) ==
    IF ignore_loop(path_name(file_path), path_name(file_path), config.ignore_patterns)
    THEN FALSE
    ELSE patterns_loop(path_name(file_path), config.patterns)

matches_file(config, file_path) ==
    IF ignore_loop(path_name(file_path), path_str(file_path), config.ignore_patterns)
    THEN FALSE
    ELSE patterns_loop(path_name(file_path), config.patterns)

MatchInit ==
    /\ db = [j \in {} |-> Job(j)]
    /\ artifact_store = {}
    /\ active_jobs = {}
    /\ tasks = [t \in Tasks |-> IdleTask]
    /\ next_id = 1
    /\ worker = [pc |-> "sleep", pending |-> <<>>, running |-> TRUE]
    /\ StepIdle
    /\ RouterIdle
    /\ \E config \in MatchConfigs, path \in MatchPaths :
          watcher = [pc |-> "change", config |-> config, path |-> path,
                     matches |-> FALSE, accepted |-> FALSE]

\* A call of config.matches_file(path).
MatchesFile ==
    /\ watcher.pc = "change"
    /\ watcher' = [watcher EXCEPT
          !.pc = "called",
          !.matches = matches_file(watcher.config, watcher.path)]
    /\ UNCHANGED <<db, wunchanged>>

\* _watch_directory on one change: a directory is skipped, then a path that
\* does not match; accepted says the change goes on to become an event.
WatchChange ==
    /\ watcher.pc = "change"
    /\ watcher' = [watcher EXCEPT
          !.pc = "handled",
          !.accepted = IF watcher.path.is_dir THEN FALSE
                       ELSE IF ~matches_file(watcher.config, watcher.path) THEN FALSE
                       ELSE TRUE]
    /\ UNCHANGED <<db, wunchanged>>

MatchNext == MatchesFile \/ WatchChange

SpecMatch == MatchInit /\ [][MatchNext]_vars

\* An ignore pattern of the watch matches the path, by its file name or by
\* its full path.
Ignored ==
    \E i \in 1..Len(watcher.config.ignore_patterns) :
        \/ fnmatch(path_name(watcher.path), watcher.config.ignore_patterns[i])
        \/ fnmatch(path_str(watcher.path), watcher.config.ignore_patterns[i])

\* A positive pattern of the watch matches the file name of the path.
Wanted ==
    \E i \in 1..Len(watcher.config.patterns) :
        fnmatch(path_name(watcher.path), watcher.config.patterns[i])

ReturnedStatuses == ProcessOutcomes \cup {"skipped"}

LoopNext ==
    \/ CreateJob(Jobs[1])
    \/ SeqProcessJob(Jobs[1])
    \/ \E t \in Tasks : DriverStart(t)
    \/ \E t \in Tasks : DriverNextStep(t)
    \/ \E t \in Tasks : DriverAwaitInput(t)
    \/ \E t \in Tasks, outcome \in ReturnedStatuses, k \in 0..MaxArtifacts :
          DriverExecute(t, outcome, k)
    \/ \E t \in Tasks : DriverEmit(t)
    \/ \E t \in Tasks : DriverExit(t)
    \/ \E t \in Tasks : CallReturns(t)

SpecLoop == Init /\ [][LoopNext]_vars

\* The driver starts a step after it has executed another in the same call.
StartsAnotherStep(t) ==
    /\ tasks[t].pc = "loop"
    /\ tasks[t].last # None
    /\ tasks'[t].pc = "execute"

\* The driver leaves its loop.
LeavesLoop(t) ==
    /\ tasks[t].pc \in {"loop", "exit"}
    /\ tasks'[t].pc = "finally"

\* C34: the driver loop never starts again the step it has just executed
\* (an execution that completed the step aside, which adds to the job's
\* completed steps), and when it leaves the loop the job is completed,
\* failed or awaiting input.
C34_DriverLoopTerminates ==
    [][\A t \in Tasks :
          /\ StartsAnotherStep(t) =>
                LET history == tasks[t].job.history
                    previous == history[Len(history)]
                IN \/ previous.step_name # tasks'[t].result.step_name
                   \/ previous.status = "completed"
          /\ LeavesLoop(t) =>
                tasks'[t].job.status \in {"completed", "failed", "awaiting_input"}]_<<db, TaskPcs>>


\* C35: once a step whose process raised, without having committed its
\* context, has returned, the operations recorded before the exception have
\* been reverted when the processor's auto_revert_on_error is true, and none
\* of them has been reverted when it is false.
C35_AutoRevertDecides ==
    (step.pc = "returned" /\ step.raised /\ ~step.committed_by_process) =>
        IF step.auto_revert_on_error
        THEN step.reverted = Reverse(step.recorded)
        ELSE step.reverted = <<>> /\ ctx.pending = step.recorded


(***************************************************************************)
(* SpecComplete: JobExecutor.execute_next_step over the registries, the    *)
(* should_process answers and the histories of SpecRouter.                 *)
(***************************************************************************)
\* execute_next_step up to the first save: with no next step the job is
\* marked completed; else execute_step starts the step.
ExecuteNextStep ==
    LET step_name == get_next_step(rt_reg, rt_should, rt_job)
    IN /\ rt_next = "unset"
       /\ rt_next' = step_name
       /\ rt_job' = IF step_name = None THEN complete(rt_job)
                    ELSE execute_step(rt_reg, rt_job, step_name, 1, "1").job
       /\ UNCHANGED <<rt_reg, rt_should, eo_processors, eo_result, watcher,
                      pvars, svars>>

CompleteNext == ExecuteNextStep

SpecComplete == RouterInit /\ [][CompleteNext]_vars

\* C36: a job marked completed has a completed history entry for every
\* processor whose should_process is true for it.
C36_CompletedOnlyWhenAllRan ==
    (rt_next # "unset" /\ rt_job.status = "completed") =>
        Applicable \subseteq CompletedNames


\* C37: no two entries of a job's persisted history share a StepResult id,
\* and no step name has two entries with status completed.
C37_OneEntryPerExecution ==
    \A j \in DOMAIN db :
        \A i, k \in 1..Len(db[j].history) :
            i < k =>
                /\ db[j].history[i].id # db[j].history[k].id
                /\ ~(/\ db[j].history[i].step_name = db[j].history[k].step_name
                     /\ db[j].history[i].status = "completed"
                     /\ db[j].history[k].status = "completed")


(***************************************************************************)
(* SpecDelete: Pipeline.delete_job beside the drivers of a job.            *)
(* delete_job loads the job, calls revert_all when revert_first, deletes   *)
(* the job's artifacts, then the job's row; its slot keeps kind "delete"   *)
(* and the id once it has returned.  An id is a uuid: create_job never     *)
(* issues the id of a deleted job again.  A job is deleted by one call.    *)
(***************************************************************************)
\* ArtifactStore.delete_by_job.
delete_by_job(store, job_id) == {a \in store : a.job_id # job_id}

\* JobStore.delete.
job_store_delete(job_id) == [j \in DOMAIN db \ {job_id} |-> db[j]]

DeleteJob(j, revert_first) ==
    /\ j \in DOMAIN db
    /\ \A t \in Tasks : ~(tasks[t].kind = "delete" /\ tasks[t].jid = j)
    /\ FreeSlots # {}
    /\ tasks' = [tasks EXCEPT ![FreeSlot] =
          [NewTask("delete", db[j]) EXCEPT
              !.pc = IF revert_first THEN "revert" ELSE "delete"]]
    /\ UNCHANGED <<db, artifact_store, active_jobs, next_id, worker, rvars, svars>>

DeleteArtifacts(t) ==
    /\ tasks[t].pc = "delete"
    /\ artifact_store' = delete_by_job(artifact_store, tasks[t].jid)
    /\ tasks' = [tasks EXCEPT ![t].pc = "delete_row"]
    /\ UNCHANGED <<db, active_jobs, next_id, worker, rvars, svars>>

DeleteRow(t) ==
    /\ tasks[t].pc = "delete_row"
    /\ db' = job_store_delete(tasks[t].jid)
    /\ tasks' = [tasks EXCEPT ![t] =
          [Finished EXCEPT !.kind = "delete", !.jid = tasks[t].jid]]
    /\ UNCHANGED <<artifact_store, active_jobs, next_id, worker, rvars, svars>>

\* The ids of the jobs a delete_job has deleted.
Deleted == {tasks[t].jid : t \in {u \in Tasks : tasks[u].kind = "delete"
                                                /\ tasks[u].pc = "done"}}

DeleteNext ==
    \/ \E j \in JobIds \ Deleted : CreateJob(j)
    \/ \E j \in JobIds : ProcessJob(j)
    \/ \E j \in JobIds, revert_first \in BOOLEAN : DeleteJob(j, revert_first)
    \/ \E t \in Tasks : DriverStart(t)
    \/ \E t \in Tasks : DriverNextStep(t)
    \/ \E t \in Tasks : DriverAwaitInput(t)
    \/ \E t \in Tasks, outcome \in ProcessOutcomes, k \in 0..MaxArtifacts :
          DriverExecute(t, outcome, k)
    \/ \E t \in Tasks : DriverEmit(t)
    \/ \E t \in Tasks : DriverExit(t)
    \/ \E t \in Tasks : RevertBegin(t)
    \/ \E t \in Tasks, raising \in SUBSET (1..MaxArtifacts) :
          RevertStep(t, raising, FALSE)
    \/ \E t \in Tasks : RevertFinish(t)
    \/ \E t \in Tasks : DeleteArtifacts(t)
    \/ \E t \in Tasks : DeleteRow(t)

SpecDelete == Init /\ [][DeleteNext]_vars

\* C38: a job that delete_job has deleted has no row in the job store and no
\* artifact in the artifact store, from the return of delete_job on.
C38_DeletedStaysAbsent ==
    \A j \in Deleted :
        /\ j \notin DOMAIN db
        /\ \A a \in artifact_store : a.job_id # j


(***************************************************************************)
(* C39: after a revert_step that succeeded, every artifact of the reverted *)
(* step has status reverted in the artifact store and inside the step's    *)
(* entry in the persisted history of the job.                              *)
(***************************************************************************)
\* The entries of the persisted histories that revert_step marked reverted
\* without an error.
RevertedEntries ==
    {r \in UNION {{db[j].history[i] : i \in 1..Len(db[j].history)} : j \in DOMAIN db} :
        r.status = "reverted" /\ r.revert_error = None}

C39_ArtifactRecordsAgree ==
    \A r \in RevertedEntries :
        \A k \in 1..Len(r.artifacts) :
            /\ r.artifacts[k].status = "reverted"
            /\ \A a \in artifact_store :
                   a.id = r.artifacts[k].id => a.status = "reverted"


(***************************************************************************)
(* C40: once cancel_job has saved a job as cancelled, no driver starts a   *)
(* later step of the job, and no driver that was already running for the   *)
(* job overwrites the persisted status cancelled.                          *)
(***************************************************************************)
DriverKinds == {"poll", "process", "resume"}

C40_CancelledStaysCancelled ==
    [][\A t \in LiveDrivers(tasks, DriverKinds) :
          (/\ db[tasks[t].jid].status = "cancelled"
           /\ tasks'[t].pc # tasks[t].pc) =>
              /\ tasks'[t].pc # "execute"
              /\ db'[tasks[t].jid].status = "cancelled"]_<<db, TaskPcs>>

====
